---- MODULE Spec2Model ----
(***************************************************************************)
(* Verification model of the codecosmos suggestion-and-safe-apply pipeline. *)
(*                                                                         *)
(* The state machines of this module share one list of variables:         *)
(*   SpecRefactor : refactor.rs, apply_refactor_plan (backup, apply,       *)
(*                  rollback) over a small file system;                    *)
(*   SpecApp      : main.rs run_loop, the suggestion store, the fix tasks, *)
(*                  the pending changes and the undo / reset actions;      *)
(*   SpecSort     : suggest/mod.rs, sort_with_context over arbitrary       *)
(*                  stores and change sets;                                *)
(*   SpecBackground : main.rs, the summary, suggestion and ship tasks, the *)
(*                  messages they send and the handlers of run_loop;       *)
(*   SpecWorkflow, SpecShip, SpecFix, SpecBudget : main.rs, the steps      *)
(*                  Suggestions, Verify, Review and Ship;                  *)
(*   SpecLlm, SpecParse, SpecVersion : call_llm, parse_multi_file_diff and *)
(*                  is_newer_version applied to bounded inputs;            *)
(*   SpecStartupCheck : app/input/overlay.rs, handle_overlay_input.        *)
(***************************************************************************)
EXTENDS Integers, Sequences, FiniteSets, TLC

VARIABLES
    \* ---- refactor.rs ----
    fs,             \* path -> Option<content>: None or Some(lines)
    fs0,            \* history: fs when apply_refactor_plan was called
    plan,           \* RefactorPlan.operations
    rpc,            \* position in apply_refactor_plan
    idx,            \* loop index of the phase in progress (1-based)
    backups,        \* Vec<BackupEntry>
    executed,       \* history: the operations apply_operations ran, {index, ok}
    opError,        \* the Err(e) of apply_operations, None while it has none
    result,         \* the value apply_refactor_plan returned, None before
    restoreFailed,  \* history: backup entries whose restoration failed
    \* ---- refactor.rs parse_multi_file_diff, suggest/llm.rs call_llm ----
    call,           \* the function called and its arguments
    ret,            \* the value it returned, None before
    \* ---- config allow_ai, main.rs app.session_cost ----
    ai_budget,      \* what allow_ai(session_cost) finds: "unlimited" (no
                    \* budget is configured), "left" or "spent"
    \* ---- main.rs run_loop (App) ----
    suggestions,    \* app.suggestions.suggestions: Vec<Suggestion>
    pending_changes,\* app.pending_changes: Vec<PendingChange>
    workflow_step,  \* app.workflow_step
    verify_state,   \* app.verify_state: suggestion_id, file_path, preview
    reviewing,      \* app.review_state.reviewing
    overlay,        \* app.overlay
    loading,        \* app.loading
    changed,        \* app.context: files with uncommitted changes
    disk,           \* working tree: path -> Option<content>
    staged,         \* paths staged in version control
    tasks,          \* the preview and fix tasks spawned, in spawn order
    genTasks,       \* suggestion-generation tasks in flight
    verifyTasks,    \* verification tasks in flight
    chan,           \* the mpsc channel tx -> rx
    nextId,         \* source of fresh Uuid / created_at values
    resets,         \* number of resets done
    ever,           \* history: every suggestion id that was ever in the store
    \* ---- main.rs: summary generation and ship ----
    cacheFile,      \* the summaries cache on disk: file -> Option<stored hash>
    llm_summaries,  \* app: the files whose summary the interface holds
    needs_summary_generation,    \* app.needs_summary_generation
    summary_progress,            \* app.summary_progress: Option<(completed, total)>
    pending_suggestions_on_init, \* app.pending_suggestions_on_init
    sumTasks,       \* the summary tasks spawned, in spawn order
    shipTasks,      \* the ship tasks spawned, in spawn order
    ship_state,     \* app.ship_state.step of the workflow
    ship_step,      \* app.ship_step of the legacy overlay
    handled,        \* history: the task messages run_loop handled, each with
                    \* its position among the handled messages of its task
    \* ---- main.rs: the Review step ----
    review_state,   \* app.review_state: file_path, original_content,
                    \* new_content, findings, selected, fixing,
                    \* review_iteration, fixed_titles
    reviewFixTasks, \* fix_review_findings tasks in flight
    review_call     \* the iteration and the fixed titles of the last
                    \* verify_changes call dispatched for the Review step

pvars == <<call, ret>>

fvars == <<fs, fs0, plan, rpc, idx, backups, executed, opError, result, restoreFailed,
           pvars>>

rvars == <<fvars, ai_budget>>

avars == <<suggestions, pending_changes, workflow_step, verify_state, reviewing,
           overlay, loading, changed, disk, staged, tasks, genTasks, verifyTasks,
           chan, nextId, resets, ever>>

svars == <<cacheFile, llm_summaries, needs_summary_generation, summary_progress,
           pending_suggestions_on_init, sumTasks, shipTasks, ship_state, ship_step,
           handled>>

wvars == <<review_state, reviewFixTasks, review_call>>

vars == <<rvars, avars, svars, wvars>>

----------------------------------------------------------------------------
(* Option<T> *)
None == <<>>
Some(x) == <<x>>
IsSome(o) == o # <<>>
Unwrap(o) == o[1]

----------------------------------------------------------------------------
(* Each specification runs one of the machines and holds the others in the
   state below. *)

NoVerify == [suggestion_id |-> None, file_path |-> None, preview |-> FALSE]

\* String::default(), the content of a file that could not be read
EmptyContent == 0 - 1

NoReview == [file_path |-> None, original_content |-> EmptyContent,
             new_content |-> EmptyContent, findings |-> {}, selected |-> {},
             fixing |-> FALSE, review_iteration |-> 0, fixed_titles |-> {}]

\* verify_changes(&files_with_content, 1, &[]) (main.rs 762)
FirstCall == [iteration |-> 1, fixed_titles |-> {}]

IdleWorkflow ==
    /\ review_state = NoReview
    /\ reviewFixTasks = 0
    /\ review_call = None

IdleApp ==
    /\ suggestions = <<>>
    /\ pending_changes = <<>>
    /\ workflow_step = "Suggestions"
    /\ verify_state = NoVerify
    /\ reviewing = FALSE
    /\ overlay = [kind |-> "None"]
    /\ loading = "None"
    /\ changed = {}
    /\ disk = <<>>
    /\ staged = {}
    /\ tasks = <<>>
    /\ genTasks = 0
    /\ verifyTasks = 0
    /\ chan = <<>>
    /\ nextId = 1
    /\ resets = 0
    /\ ever = {}

IdleBackground ==
    /\ cacheFile = <<>>
    /\ llm_summaries = {}
    /\ needs_summary_generation = FALSE
    /\ summary_progress = None
    /\ pending_suggestions_on_init = FALSE
    /\ sumTasks = <<>>
    /\ shipTasks = <<>>
    /\ ship_state = "Confirm"
    /\ ship_step = None
    /\ handled = {}

\* No budget is configured: allow_ai is Ok whatever the session has cost.
Unlimited == ai_budget = "unlimited"

IdlePure ==
    /\ call = [fn |-> "none"]
    /\ ret = None

IdleRefactor ==
    /\ IdlePure
    /\ fs = <<>>
    /\ fs0 = <<>>
    /\ plan = <<>>
    /\ rpc = "idle"
    /\ idx = 0
    /\ backups = <<>>
    /\ executed = <<>>
    /\ opError = None
    /\ result = None
    /\ restoreFailed = {}

----------------------------------------------------------------------------
(* Bounds and input sets of the refactor model *)
MaxOps == 2

Paths == {"a.rs", "b.rs", "c.rs"}

Base == <<"a", "b", "c", "d">>
Drifted == <<"a", "b", "c", "z">>
Fresh == <<"n">>

\* DiffLine: <<kind, text>> with kind " " (Context), "-" (Remove), "+" (Add)
Hunk1 == [old_start |-> 1, lines |-> << <<"-", "a">>, <<"+", "A">> >>]
Hunk2 == [old_start |-> 3,
          lines |-> << <<" ", "c">>, <<"-", "d">>, <<"+", "D">>, <<"+", "E">> >>]
Diffs == { <<Hunk1, Hunk2>>, <<Hunk1>> }

FileOperation ==
         [op : {"CREATE"}, path : Paths, content : {Fresh}]
    \cup [op : {"MODIFY"}, path : Paths, diff : Diffs]
    \cup [op : {"DELETE"}, path : Paths]
    \cup { o \in [op : {"RENAME"}, from : Paths, to : Paths] : o.from # o.to }

Plans == UNION { [1..n -> FileOperation] : n \in 1..MaxOps }

InitialFs == [Paths -> {None, Some(Base), Some(Drifted)}]

----------------------------------------------------------------------------
(* crate::diff (unified diff application), modelled from spec section 4.3 *)

IsOldLine(l) == l[1] \in {" ", "-"}
IsNewLine(l) == l[1] \in {" ", "+"}
Texts(ls) == [i \in 1..Len(ls) |-> ls[i][2]]
OldLines(h) == Texts(SelectSeq(h.lines, IsOldLine))
NewLines(h) == Texts(SelectSeq(h.lines, IsNewLine))

\* The hunk's old range, shifted by the lines earlier hunks added or removed,
\* holds exactly the hunk's context and removed lines.
HunkMatches(content, h, offset) ==
    LET start == h.old_start + offset
        old == OldLines(h)
    IN  /\ start >= 1
        /\ start + Len(old) - 1 <= Len(content)
        /\ SubSeq(content, start, start + Len(old) - 1) = old

ApplyHunk(content, h, offset) ==
    LET start == h.old_start + offset
        old == OldLines(h)
    IN  SubSeq(content, 1, start - 1) \o NewLines(h)
            \o SubSeq(content, start + Len(old), Len(content))

\* All hunks are applied to an in-memory copy; the first mismatch fails the
\* whole diff and names the hunk.
RECURSIVE ApplyHunksFrom(_, _, _, _)
ApplyHunksFrom(content, diff, k, offset) ==
    IF k > Len(diff) THEN [ok |-> TRUE, content |-> content, hunk |-> 0]
    ELSE IF ~HunkMatches(content, diff[k], offset)
         THEN [ok |-> FALSE, content |-> content, hunk |-> k]
         ELSE ApplyHunksFrom(ApplyHunk(content, diff[k], offset), diff, k + 1,
                  offset + Len(NewLines(diff[k])) - Len(OldLines(diff[k])))

ApplyDiff(content, diff) == ApplyHunksFrom(content, diff, 1, 0)

\* apply_diff_to_file: the outcomes {fs, err} of patching one file.
ApplyDiffToFile(f, path, diff) ==
    IF ~IsSome(f[path])
    THEN { [fs |-> f, err |-> Some([what |-> "read", path |-> path, hunk |-> 0])] }
    ELSE LET r == ApplyDiff(Unwrap(f[path]), diff)
         IN  IF ~r.ok
             THEN { [fs |-> f, err |-> Some([what |-> "hunk", path |-> path, hunk |-> r.hunk])] }
             ELSE { [fs |-> [f EXCEPT ![path] = Some(r.content)], err |-> None],
                    [fs |-> f, err |-> Some([what |-> "write", path |-> path, hunk |-> 0])] }

----------------------------------------------------------------------------
(* refactor.rs *)

OpErr(what, path) == Some([what |-> what, path |-> path, hunk |-> 0])

\* One arm of the match in apply_operations: the outcomes {fs, err} of one
\* operation. An std::fs call can fail for reasons outside the model (I/O).
ExecOp(f, o) ==
    CASE o.op = "CREATE" ->
            { [fs |-> [f EXCEPT ![o.path] = Some(o.content)], err |-> None],
              [fs |-> f, err |-> OpErr("mkdir", o.path)],
              [fs |-> f, err |-> OpErr("create", o.path)] }
      [] o.op = "MODIFY" -> ApplyDiffToFile(f, o.path, o.diff)
      [] o.op = "DELETE" ->
            IF IsSome(f[o.path])
            THEN { [fs |-> [f EXCEPT ![o.path] = None], err |-> None],
                   [fs |-> f, err |-> OpErr("delete", o.path)] }
            ELSE { [fs |-> f, err |-> None] }
      [] o.op = "RENAME" ->
            { [fs |-> f, err |-> OpErr("mkdir", o.to)],
              [fs |-> f, err |-> OpErr("rename", o.from)] }
            \cup (IF IsSome(f[o.from])
                  THEN { [fs |-> [f EXCEPT ![o.to] = f[o.from], ![o.from] = None],
                          err |-> None] }
                  ELSE {})

\* The path whose content the backup loop snapshots for an operation.
BackupPathOf(o) == IF o.op = "RENAME" THEN o.from ELSE o.path

\* One arm of the match in the backup loop of apply_refactor_plan: the
\* outcomes {entries, err}; entries are the BackupEntry values pushed.
BackupOp(f, o) ==
    LET p == BackupPathOf(o)
        entry == [path |-> p, original_content |-> f[p]]
    IN  IF IsSome(f[p])
        THEN { [entries |-> <<entry>>, err |-> None],
               [entries |-> <<>>, err |-> OpErr("backup", p)] }
        ELSE CASE o.op = "CREATE" -> { [entries |-> <<entry>>, err |-> None] }
               [] o.op = "MODIFY" -> { [entries |-> <<>>, err |-> OpErr("backup", p)] }
               [] OTHER -> { [entries |-> <<>>, err |-> None] }

\* One iteration of rollback: the outcomes {fs, failed}. The results of
\* fs::write and fs::remove_file are dropped (let _ =).
RestoreEntry(f, b) ==
    IF IsSome(b.original_content)
    THEN { [fs |-> [f EXCEPT ![b.path] = b.original_content], failed |-> FALSE],
           [fs |-> f, failed |-> TRUE] }
    ELSE IF IsSome(f[b.path])
         THEN { [fs |-> [f EXCEPT ![b.path] = None], failed |-> FALSE],
                [fs |-> f, failed |-> TRUE] }
         ELSE { [fs |-> f, failed |-> FALSE] }

\* The Err value apply_refactor_plan builds after rollback():
\* format!("Refactoring failed, rolled back: {}", e). It carries the error of
\* the failed operation and nothing about the restorations.
RollbackError(e) ==
    [ok |-> FALSE, text |-> "Refactoring failed, rolled back", cause |-> e]

InitRefactor ==
    /\ Unlimited
    /\ fs \in InitialFs
    /\ fs0 = fs
    /\ plan \in Plans
    /\ rpc = "backup"
    /\ idx = 1
    /\ backups = <<>>
    /\ executed = <<>>
    /\ opError = None
    /\ result = None
    /\ restoreFailed = {}
    /\ IdleApp
    /\ IdleBackground
    /\ IdleWorkflow
    /\ IdlePure

\* Variant of BackupStep: an operation is executed as soon as its backup is
\* captured.
BackupStepApplying ==
    /\ rpc = "backup"
    /\ idx <= Len(plan)
    /\ \E r \in BackupOp(fs, plan[idx]) :
          IF IsSome(r.err)
          THEN /\ result' = Some([ok |-> FALSE, text |-> "Failed to read for backup",
                                  cause |-> Unwrap(r.err)])
               /\ rpc' = "done"
               /\ UNCHANGED <<idx, backups, fs, executed>>
          ELSE /\ backups' = backups \o r.entries
               /\ \E x \in ExecOp(fs, plan[idx]) :
                     /\ ~IsSome(x.err)
                     /\ fs' = x.fs
                     /\ executed' = Append(executed, [index |-> idx, ok |-> TRUE])
               /\ idx' = IF idx = Len(plan) THEN 1 ELSE idx + 1
               /\ rpc' = IF idx = Len(plan) THEN "apply" ELSE "backup"
               /\ UNCHANGED result
    /\ UNCHANGED <<fs0, plan, opError, restoreFailed>>
    /\ UNCHANGED <<avars, svars, wvars, pvars, ai_budget>>

\* apply_refactor_plan, lines 234-283: one iteration of the backup loop.
BackupStep ==
    /\ rpc = "backup"
    /\ idx <= Len(plan)
    /\ \E r \in BackupOp(fs, plan[idx]) :
          IF IsSome(r.err)
          THEN /\ result' = Some([ok |-> FALSE, text |-> "Failed to read for backup",
                                  cause |-> Unwrap(r.err)])
               /\ rpc' = "done"
               /\ UNCHANGED <<idx, backups>>
          ELSE /\ backups' = backups \o r.entries
               /\ idx' = IF idx = Len(plan) THEN 1 ELSE idx + 1
               /\ rpc' = IF idx = Len(plan) THEN "apply" ELSE "backup"
               /\ UNCHANGED result
    /\ UNCHANGED <<fs, fs0, plan, executed, opError, restoreFailed>>
    /\ UNCHANGED <<avars, svars, wvars, pvars, ai_budget>>

\* Variant of ApplyStep: the error of an operation is dropped and the loop goes
\* on with the next operation.
ApplyStepIgnoringErrors ==
    /\ rpc = "apply"
    /\ idx <= Len(plan)
    /\ \E r \in ExecOp(fs, plan[idx]) :
          /\ fs' = r.fs
          /\ executed' = Append(executed, [index |-> idx, ok |-> ~IsSome(r.err)])
    /\ IF idx = Len(plan)
       THEN /\ rpc' = "done"
            /\ result' = Some([ok |-> TRUE])
            /\ UNCHANGED idx
       ELSE /\ rpc' = "apply"
            /\ idx' = idx + 1
            /\ UNCHANGED result
    /\ UNCHANGED <<fs0, plan, backups, opError, restoreFailed>>
    /\ UNCHANGED <<avars, svars, wvars, pvars, ai_budget>>

\* apply_operations: one iteration of its loop; `?` returns at the first Err.
ApplyStep ==
    /\ rpc = "apply"
    /\ idx <= Len(plan)
    /\ \E r \in ExecOp(fs, plan[idx]) :
          /\ fs' = r.fs
          /\ executed' = Append(executed, [index |-> idx, ok |-> ~IsSome(r.err)])
          /\ IF IsSome(r.err)
             THEN /\ opError' = r.err
                  /\ rpc' = "rollback"
                  /\ idx' = Len(backups)
                  /\ UNCHANGED result
             ELSE /\ UNCHANGED opError
                  /\ IF idx = Len(plan)
                     THEN /\ rpc' = "done"
                          /\ result' = Some([ok |-> TRUE])
                          /\ UNCHANGED idx
                     ELSE /\ rpc' = "apply"
                          /\ idx' = idx + 1
                          /\ UNCHANGED result
    /\ UNCHANGED <<fs0, plan, backups, restoreFailed>>
    /\ UNCHANGED <<avars, svars, wvars, pvars, ai_budget>>

\* Variant of RollbackStep: the loop ends at the first restoration that fails.
RollbackStepUntilFailure ==
    /\ rpc = "rollback"
    /\ idx >= 1
    /\ \E r \in RestoreEntry(fs, backups[idx]) :
          /\ fs' = r.fs
          /\ restoreFailed' = IF r.failed THEN restoreFailed \cup {idx} ELSE restoreFailed
          /\ idx' = IF r.failed THEN 0 ELSE idx - 1
    /\ UNCHANGED <<fs0, plan, rpc, backups, executed, opError, result>>
    /\ UNCHANGED <<avars, svars, wvars, pvars, ai_budget>>

\* rollback: one iteration of `for backup in backups.iter().rev()`.
RollbackStep ==
    /\ rpc = "rollback"
    /\ idx >= 1
    /\ \E r \in RestoreEntry(fs, backups[idx]) :
          /\ fs' = r.fs
          /\ restoreFailed' = IF r.failed THEN restoreFailed \cup {idx} ELSE restoreFailed
    /\ idx' = idx - 1
    /\ UNCHANGED <<fs0, plan, rpc, backups, executed, opError, result>>
    /\ UNCHANGED <<avars, svars, wvars, pvars, ai_budget>>

\* apply_refactor_plan, line 291: return Err after rollback().
ReturnRolledBack ==
    /\ rpc = "rollback"
    /\ idx = 0
    /\ result' = Some(RollbackError(Unwrap(opError)))
    /\ rpc' = "done"
    /\ UNCHANGED <<fs, fs0, plan, idx, backups, executed, opError, restoreFailed>>
    /\ UNCHANGED <<avars, svars, wvars, pvars, ai_budget>>

NextRefactor ==
    \/ BackupStep
    \/ ApplyStep
    \/ RollbackStep
    \/ ReturnRolledBack

SpecRefactor == InitRefactor /\ [][NextRefactor]_vars

----------------------------------------------------------------------------
(* Claims on apply_refactor_plan *)

Returned == rpc = "done" /\ IsSome(result)
ReturnedErrAfterRollback == Returned /\ ~Unwrap(result).ok /\ IsSome(opError)

\* C1: when apply_refactor_plan returns an error because an operation failed,
\* every path (created, modified, deleted, renamed-from, renamed-to) has its
\* pre-plan content or absence again; otherwise every operation was applied.
\* Stated for runs in which no restoration itself failed.
C1_AllOrNothing ==
    Returned =>
        IF Unwrap(result).ok
        THEN Len(executed) = Len(plan)
        ELSE restoreFailed = {} => fs = fs0

\* C2: the operations run strictly in list order and the first failure ends
\* the loop: the k-th operation executed is operation k, and every operation
\* executed before another one succeeded.
C2_InOrderAbortAtFirstFailure ==
    \A k \in 1..Len(executed) :
        /\ executed[k].index = k
        /\ k < Len(executed) => executed[k].ok

\* C2 witness: a plan of several operations whose first operation failed has
\* returned with no later operation executed.
C2_Witness ==
    /\ Returned
    /\ Len(plan) >= 2
    /\ Len(executed) = 1
    /\ ~executed[1].ok

\* C3: a Modify whose diff has a mismatching hunk fails as a whole: the error
\* names the hunk, and once apply_refactor_plan has returned every earlier
\* operation of the plan is rolled back, so the file system is as before the
\* plan (stated for runs in which no restoration itself failed).
C3_HunkMismatchRollsBackAll ==
    (ReturnedErrAfterRollback /\ Unwrap(opError).what = "hunk" /\ restoreFailed = {}) =>
        /\ Unwrap(result).cause.hunk >= 1
        /\ fs = fs0

\* The paths the returned value names as not restored: the Err string of
\* apply_refactor_plan has no such part.
ReportedUnrestored(res) ==
    IF "unrestored" \in DOMAIN res THEN res.unrestored ELSE {}

\* C4: a restoration that fails during rollback is reported: the returned
\* error names exactly the paths that could not be restored, so a partial
\* rollback can be told from a complete one.
C4_PartialRollbackReported ==
    ReturnedErrAfterRollback =>
        ReportedUnrestored(Unwrap(result)) = { backups[i].path : i \in restoreFailed }

----------------------------------------------------------------------------
(* suggest/mod.rs: the suggestion store *)

MaxSuggestions == 2
MaxTasks == 3
MaxResets == 1

\* A path is <<stem, extension>>.
FileRs == <<"x", "rs">>
FilePy == <<"x", "py">>
Files == {FileRs, FilePy}

PriorityRank(p) == CASE p = "Low" -> 0 [] p = "Medium" -> 1 [] p = "High" -> 2

\* kind_weight in sort_with_context
KindWeightQualityAsDocumentation(k) ==
    CASE k = "BugFix" -> 40
      [] k = "Refactoring" -> 30
      [] k = "Optimization" -> 25
      [] k = "Testing" -> 20
      [] k = "Quality" -> 10
      [] k = "Documentation" -> 10
      [] k = "Improvement" -> 10
      [] k = "Feature" -> 0

KindWeight(k) ==
    CASE k = "BugFix" -> 40
      [] k = "Refactoring" -> 30
      [] k = "Optimization" -> 25
      [] k = "Testing" -> 20
      [] k = "Quality" -> 15
      [] k = "Documentation" -> 10
      [] k = "Improvement" -> 10
      [] k = "Feature" -> 0

\* Suggestion::new: a fresh id, both flags false. The attributes of the
\* suggestions a generation task returns are fixed by their number here.
NewSuggestion(id) ==
    [id |-> id,
     kind |-> IF id % 2 = 1 THEN "Feature" ELSE "BugFix",
     priority |-> IF id % 3 = 1 THEN "Low" ELSE IF id % 3 = 2 THEN "High" ELSE "Medium",
     file |-> IF id % 2 = 1 THEN FileRs ELSE FilePy,
     created_at |-> id,
     dismissed |-> FALSE,
     applied |-> FALSE]

\* index.files[..].summary.{used_by, depends_on}
UsedBy(f) == IF f = FilePy THEN {FileRs} ELSE {}
DependsOn(f) == IF f = FileRs THEN {FilePy} ELSE {}

\* Lexicographic order on tuples of integers of one length: the chain of
\* `if x != Equal { return x }` of a sort_by comparator.
RECURSIVE KeyLess(_, _, _)
KeyLess(a, b, i) ==
    IF i > Len(a) THEN FALSE
    ELSE IF a[i] # b[i] THEN a[i] < b[i]
    ELSE KeyLess(a, b, i + 1)

\* sort_with_context: the blast set of the changed files
Blast(ch) == (UNION { UsedBy(c) \cup DependsOn(c) : c \in ch }) \ ch

\* The comparator of a sort_by call as a key, smaller first. ctx = None is
\* |a, b| b.priority.cmp(&a.priority); ctx = Some(changed) is the comparator of
\* sort_with_context.
SortKeyPriorityFirst(x, ctx) ==
    IF ctx = None
    THEN << 0 - PriorityRank(x.priority) >>
    ELSE << 0 - PriorityRank(x.priority),
            IF x.file \in Unwrap(ctx) THEN 0 ELSE 1,
            IF x.file \in Blast(Unwrap(ctx)) THEN 0 ELSE 1,
            0 - KindWeight(x.kind),
            0 - x.created_at >>

SortKey(x, ctx) ==
    IF ctx = None
    THEN << 0 - PriorityRank(x.priority) >>
    ELSE << IF x.file \in Unwrap(ctx) THEN 0 ELSE 1,
            IF x.file \in Blast(Unwrap(ctx)) THEN 0 ELSE 1,
            0 - PriorityRank(x.priority),
            0 - KindWeight(x.kind),
            0 - x.created_at >>

\* Vec::sort_by is a stable sort: insertion after every element that does not
\* compare greater.
\* Variant of the insertion that puts an element before the ones it equals
RECURSIVE InsertBeforeEqual(_, _, _)
InsertBeforeEqual(sorted, x, ctx) ==
    IF sorted = <<>> THEN <<x>>
    ELSE IF ~KeyLess(SortKey(Head(sorted), ctx), SortKey(x, ctx), 1)
         THEN <<x>> \o sorted
         ELSE <<Head(sorted)>> \o InsertBeforeEqual(Tail(sorted), x, ctx)

RECURSIVE InsertByKey(_, _, _)
InsertByKey(sorted, x, ctx) ==
    IF sorted = <<>> THEN <<x>>
    ELSE IF KeyLess(SortKey(x, ctx), SortKey(Head(sorted), ctx), 1)
         THEN <<x>> \o sorted
         ELSE <<Head(sorted)>> \o InsertByKey(Tail(sorted), x, ctx)

RECURSIVE StableSortByKey(_, _)
StableSortByKey(seq, ctx) ==
    IF seq = <<>> THEN <<>>
    ELSE InsertByKey(StableSortByKey(SubSeq(seq, 1, Len(seq) - 1), ctx),
                     seq[Len(seq)], ctx)

SortByPriority(store) == StableSortByKey(store, None)

SortWithContext(store, ch) == StableSortByKey(store, Some(ch))

\* Variant of active_suggestions that filters on the dismissed flag only
ActiveSuggestionsIgnoringApplied(store) ==
    LET IsActive(x) == ~x.dismissed
    IN  SelectSeq(store, IsActive)

\* active_suggestions
ActiveSuggestions(store) ==
    LET IsActive(x) == ~x.dismissed /\ ~x.applied
    IN  SelectSeq(store, IsActive)

\* iter_mut().find(|s| s.id == id): the index of the first entry with the id,
\* 0 when there is none
RECURSIVE FindFrom(_, _, _)
FindFrom(store, id, i) ==
    IF i > Len(store) THEN 0
    ELSE IF store[i].id = id THEN i
    ELSE FindFrom(store, id, i + 1)

Find(store, id) == FindFrom(store, id, 1)

\* Variant of dismiss that also clears the applied flag
DismissClearingApplied(store, id) ==
    LET i == Find(store, id)
    IN  IF i = 0 THEN store
        ELSE [store EXCEPT ![i].dismissed = TRUE, ![i].applied = FALSE]

\* dismiss
Dismiss(store, id) ==
    LET i == Find(store, id)
    IN  IF i = 0 THEN store ELSE [store EXCEPT ![i].dismissed = TRUE]

\* Variant of mark_applied that flags the first entry when the id is unknown
MarkAppliedOrFirst(store, id) ==
    LET i == Find(store, id)
    IN  IF store = <<>> THEN store
        ELSE IF i = 0 THEN [store EXCEPT ![1].applied = TRUE]
        ELSE [store EXCEPT ![i].applied = TRUE]

\* mark_applied
MarkApplied(store, id) ==
    LET i == Find(store, id)
    IN  IF i = 0 THEN store ELSE [store EXCEPT ![i].applied = TRUE]

\* unmark_applied
UnmarkApplied(store, id) ==
    LET i == Find(store, id)
    IN  IF i = 0 THEN store ELSE [store EXCEPT ![i].applied = FALSE]

\* Variant of add_llm_suggestion that keeps only the new entry
AddLlmSuggestionReplacing(store, x) == SortByPriority(<<x>>)

\* add_llm_suggestion: push, then sort by priority
AddLlmSuggestion(store, x) == SortByPriority(Append(store, x))

RECURSIVE AddAll(_, _)
AddAll(store, batch) ==
    IF batch = <<>> THEN store
    ELSE AddAll(AddLlmSuggestion(store, Head(batch)), Tail(batch))

Ids(store) == { store[i].id : i \in 1..Len(store) }

----------------------------------------------------------------------------
(* main.rs: the background tasks *)

\* full_path.with_extension("cosmos.bak"): the extension is replaced
BackupPath(p) == <<p[1], "cosmos.bak">>

DiskPaths == Files \cup { BackupPath(f) : f \in Files }

\* File contents are numbers: the content a file starts with, the content
\* fix task t generates (t), and what a failed fs::write may leave behind.
OrigContent(f) == IF f = FileRs THEN 100 ELSE 200
Truncated == 0

ChangeSets == { {}, {FileRs} }

\* Variant of Send: the message overtakes those waiting in the channel.
SendFront(m) == chan' = <<m>> \o chan

\* tx.send(m) on the mpsc channel
Send(m) == chan' = Append(chan, m)

Msg(type) == [type |-> type]

\* The findings a verification pass can report: none, or one finding
FindingSets == { {}, {"finding"} }

\* std::fs::read_to_string(p).unwrap_or_default()
ReadOrDefault(p) == IF IsSome(disk[p]) THEN Unwrap(disk[p]) ELSE EmptyContent

\* App::start_review
StartReview(file_path, original_content, new_content) ==
    /\ workflow_step' = "Review"
    /\ reviewing' = TRUE
    /\ review_state' = [file_path |-> Some(file_path),
                        original_content |-> original_content,
                        new_content |-> new_content,
                        findings |-> {}, selected |-> {}, fixing |-> FALSE,
                        review_iteration |-> 1, fixed_titles |-> {}]

NewTask(kind, sid, file) ==
    [kind |-> kind, sid |-> sid, file |-> file,
     pc |-> IF kind = "fix" THEN "gen" ELSE "run",
     pre |-> None, log |-> <<>>]

Spawn(kind, sid, file) == tasks' = Append(tasks, NewTask(kind, sid, file))

CanSpawn == Len(tasks) < MaxTasks

TaskStep(t, pc, events) ==
    tasks' = [tasks EXCEPT ![t].pc = pc, ![t].log = @ \o events]

\* A task that has sent its terminal message is gone.
Finished == [kind |-> "finished"]

TaskEnds(t) == tasks' = [tasks EXCEPT ![t] = Finished]

\* A terminal message of a fix task, with the history of the task that sent it
FixMsg(type, t, events) ==
    [type |-> type, sid |-> tasks[t].sid, file |-> tasks[t].file,
     backup_path |-> BackupPath(tasks[t].file), pre |-> tasks[t].pre,
     log |-> tasks[t].log \o events]

StoreFrame == UNCHANGED <<rvars, svars>>

\* config.allow_ai(app.session_cost) (main.rs 2272, 1227)
AllowAi == ai_budget # "spent"

\* app.session_cost += cost (main.rs 585, 619, 732, 863, 878): the cost of
\* a task may use up what is left of a configured budget.
TrackCost == ai_budget' \in (IF ai_budget = "left" THEN {"left", "spent"} ELSE {ai_budget})

CostStoreFrame == UNCHANGED <<fvars, svars>> /\ TrackCost

CostAppFrame == UNCHANGED <<fvars, svars, wvars>> /\ TrackCost

AppFrame == UNCHANGED <<rvars, svars, wvars>>

\* The suggestion-generation task (main.rs 500-524, 651-675, 2044-2068): one
\* terminal message. The suggestions it returns get fresh ids.
GenTaskDone ==
    /\ genTasks > 0
    /\ genTasks' = genTasks - 1
    /\ \/ \E k \in 0..(MaxSuggestions + 1 - nextId) :
             /\ Send([type |-> "SuggestionsReady",
                      batch |-> [i \in 1..k |-> NewSuggestion(nextId + i - 1)]])
             /\ nextId' = nextId + k
       \/ /\ Send(Msg("SuggestionsError"))
          /\ UNCHANGED nextId
    /\ UNCHANGED <<suggestions, pending_changes, workflow_step, verify_state, reviewing,
                   overlay, loading, changed, disk, staged, tasks, verifyTasks,
                   resets, ever>>
    /\ AppFrame

\* The preview task (main.rs 2286-2305, 2119-2138)
PreviewTaskDone(t) ==
    /\ tasks[t].kind = "preview"
    /\ tasks[t].pc = "run"
    /\ \/ Send([type |-> "PreviewReady", sid |-> tasks[t].sid, file |-> tasks[t].file])
       \/ Send(Msg("PreviewError"))
    /\ TaskEnds(t)
    /\ UNCHANGED <<suggestions, pending_changes, workflow_step, verify_state, reviewing,
                   overlay, loading, changed, disk, staged, genTasks, verifyTasks,
                   nextId, resets, ever>>
    /\ AppFrame

\* The verification task (main.rs 756-771, 780-795)
VerifyTaskDone ==
    /\ verifyTasks > 0
    /\ verifyTasks' = verifyTasks - 1
    /\ \/ \E f \in FindingSets : Send([type |-> "VerificationComplete", findings |-> f])
       \/ Send(Msg("Error"))
    /\ UNCHANGED <<suggestions, pending_changes, workflow_step, verify_state, reviewing,
                   overlay, loading, changed, disk, staged, tasks, genTasks,
                   nextId, resets, ever>>
    /\ AppFrame

\* The fix task (main.rs 2323-2385 and 1252-1325), up to generate_fix_content:
\* branch creation, reading the file and the generation call can each fail.
FixGenerate(t) ==
    /\ tasks[t].kind = "fix"
    /\ tasks[t].pc = "gen"
    /\ \/ /\ TaskStep(t, "backup", <<>>)
          /\ UNCHANGED chan
       \/ /\ TaskEnds(t)
          /\ Send(FixMsg("DirectFixError", t, <<"sendError">>))
    /\ UNCHANGED <<suggestions, pending_changes, workflow_step, verify_state, reviewing,
                   overlay, loading, changed, disk, staged, genTasks, verifyTasks,
                   nextId, resets, ever>>
    /\ AppFrame

\* Variant of the backup step that goes on to the write when the copy failed
FixBackupIgnoringFailure(t) ==
    /\ tasks[t].kind = "fix"
    /\ tasks[t].pc = "backup"
    /\ \/ /\ IsSome(disk[tasks[t].file])
          /\ disk' = [disk EXCEPT ![BackupPath(tasks[t].file)] = disk[tasks[t].file]]
          /\ TaskStep(t, "write", <<"copy">>)
       \/ /\ TaskStep(t, "write", <<"copyFailed">>)
          /\ UNCHANGED disk
    /\ UNCHANGED <<suggestions, pending_changes, workflow_step, verify_state, reviewing,
                   overlay, loading, changed, staged, genTasks, verifyTasks, chan,
                   nextId, resets, ever>>
    /\ AppFrame

\* std::fs::copy(&full_path, &backup_path)
FixBackup(t) ==
    /\ tasks[t].kind = "fix"
    /\ tasks[t].pc = "backup"
    /\ \/ /\ IsSome(disk[tasks[t].file])
          /\ disk' = [disk EXCEPT ![BackupPath(tasks[t].file)] = disk[tasks[t].file]]
          /\ TaskStep(t, "write", <<"copy">>)
          /\ UNCHANGED chan
       \/ /\ TaskEnds(t)
          /\ Send(FixMsg("DirectFixError", t, <<"copyFailed", "sendError">>))
          /\ UNCHANGED disk
    /\ UNCHANGED <<suggestions, pending_changes, workflow_step, verify_state, reviewing,
                   overlay, loading, changed, staged, genTasks, verifyTasks,
                   nextId, resets, ever>>
    /\ AppFrame

\* std::fs::write(&full_path, &applied_fix.new_content); a failed write may
\* have truncated the file already.
FixWrite(t) ==
    /\ tasks[t].kind = "fix"
    /\ tasks[t].pc = "write"
    /\ \/ /\ disk' = [disk EXCEPT ![tasks[t].file] = Some(t)]
          /\ tasks' = [tasks EXCEPT ![t].pc = "finish", ![t].log = @ \o <<"write">>,
                                    ![t].pre = disk[tasks[t].file]]
       \/ /\ disk' \in { disk, [disk EXCEPT ![tasks[t].file] = Some(Truncated)] }
          /\ tasks' = [tasks EXCEPT ![t].pc = "restore", ![t].log = @ \o <<"writeFailed">>,
                                    ![t].pre = disk[tasks[t].file]]
    /\ UNCHANGED <<suggestions, pending_changes, workflow_step, verify_state, reviewing,
                   overlay, loading, changed, staged, genTasks, verifyTasks, chan,
                   nextId, resets, ever>>
    /\ AppFrame

\* Ok arm of the write: stage_file (result dropped), safe_apply::run, send
\* DirectFixApplied.
FixFinish(t) ==
    /\ tasks[t].kind = "fix"
    /\ tasks[t].pc = "finish"
    /\ staged' = staged \cup {tasks[t].file}
    /\ TaskEnds(t)
    /\ Send(FixMsg("DirectFixApplied", t, <<"stage", "sendApplied">>))
    /\ UNCHANGED <<suggestions, pending_changes, workflow_step, verify_state, reviewing,
                   overlay, loading, changed, disk, genTasks, verifyTasks,
                   nextId, resets, ever>>
    /\ AppFrame

\* Err arm of the write: let _ = std::fs::copy(&backup_path, &full_path)
FixRestore(t) ==
    /\ tasks[t].kind = "fix"
    /\ tasks[t].pc = "restore"
    /\ disk' = IF IsSome(disk[BackupPath(tasks[t].file)])
               THEN [disk EXCEPT ![tasks[t].file] = disk[BackupPath(tasks[t].file)]]
               ELSE disk
    /\ TaskStep(t, "remove", <<"restore">>)
    /\ UNCHANGED <<suggestions, pending_changes, workflow_step, verify_state, reviewing,
                   overlay, loading, changed, staged, genTasks, verifyTasks, chan,
                   nextId, resets, ever>>
    /\ AppFrame

\* Variant of FixRemoveBackup: the task ends without a message.
FixRemoveBackupSilent(t) ==
    /\ tasks[t].kind = "fix"
    /\ tasks[t].pc = "remove"
    /\ disk' = [disk EXCEPT ![BackupPath(tasks[t].file)] = None]
    /\ TaskEnds(t)
    /\ UNCHANGED <<suggestions, pending_changes, workflow_step, verify_state, reviewing,
                   overlay, loading, changed, staged, genTasks, verifyTasks, chan,
                   nextId, resets, ever>>
    /\ AppFrame

\* Err arm of the write: let _ = std::fs::remove_file(&backup_path), then send
\* DirectFixError.
FixRemoveBackup(t) ==
    /\ tasks[t].kind = "fix"
    /\ tasks[t].pc = "remove"
    /\ disk' = [disk EXCEPT ![BackupPath(tasks[t].file)] = None]
    /\ TaskEnds(t)
    /\ Send(FixMsg("DirectFixError", t, <<"removeBackup", "sendError">>))
    /\ UNCHANGED <<suggestions, pending_changes, workflow_step, verify_state, reviewing,
                   overlay, loading, changed, staged, genTasks, verifyTasks,
                   nextId, resets, ever>>
    /\ AppFrame

----------------------------------------------------------------------------
(* main.rs run_loop: the message handlers *)

Receiving(type) == chan # <<>> /\ Head(chan).type = type


\* main.rs 593-597 and 605-609: the summaries indicator comes back when
\* summaries are still being generated.
LoadingAfterSuggestions ==
    IF needs_summary_generation /\ IsSome(summary_progress)
    THEN "GeneratingSummaries" ELSE "None"

\* BackgroundMessage::SuggestionsReady (main.rs 573-601)
HandleSuggestionsReady ==
    /\ Receiving("SuggestionsReady")
    /\ chan' = Tail(chan)
    /\ suggestions' = SortWithContext(AddAll(suggestions, Head(chan).batch), changed)
    /\ ever' = ever \cup Ids(Head(chan).batch)
    /\ loading' = LoadingAfterSuggestions
    /\ UNCHANGED <<pending_changes, workflow_step, verify_state, reviewing, overlay,
                   changed, disk, staged, tasks, genTasks, verifyTasks, nextId, resets>>
    /\ CostAppFrame

\* BackgroundMessage::SuggestionsError (main.rs 603-611)
HandleSuggestionsError ==
    /\ Receiving("SuggestionsError")
    /\ chan' = Tail(chan)
    /\ loading' = LoadingAfterSuggestions
    /\ UNCHANGED <<suggestions, pending_changes, workflow_step, verify_state, reviewing,
                   overlay, changed, disk, staged, tasks, genTasks, verifyTasks,
                   nextId, resets, ever>>
    /\ AppFrame

\* BackgroundMessage::PreviewReady (main.rs 709-718)
HandlePreviewReady ==
    /\ Receiving("PreviewReady")
    /\ chan' = Tail(chan)
    /\ loading' = "None"
    /\ IF workflow_step = "Verify"
       THEN /\ verify_state' = [verify_state EXCEPT !.preview = TRUE]
            /\ UNCHANGED overlay
       ELSE /\ overlay' = [kind |-> "FixPreview", suggestion_id |-> Head(chan).sid,
                           file_path |-> Head(chan).file]
            /\ UNCHANGED verify_state
    /\ UNCHANGED <<suggestions, pending_changes, workflow_step, reviewing,
                   changed, disk, staged, tasks, genTasks, verifyTasks,
                   nextId, resets, ever>>
    /\ AppFrame

\* BackgroundMessage::PreviewError (main.rs 719-727)
HandlePreviewError ==
    /\ Receiving("PreviewError")
    /\ chan' = Tail(chan)
    /\ loading' = "None"
    /\ IF workflow_step = "Verify"
       THEN workflow_step' = "Suggestions" /\ verify_state' = NoVerify
       ELSE UNCHANGED <<workflow_step, verify_state>>
    /\ UNCHANGED <<suggestions, pending_changes, reviewing, overlay,
                   changed, disk, staged, tasks, genTasks, verifyTasks,
                   nextId, resets, ever>>
    /\ AppFrame

\* App::add_pending_change
AddPendingChange(pc, m) ==
    Append(pc, [suggestion_id |-> m.sid, file_path |-> m.file,
                backup_path |-> m.backup_path, pre |-> m.pre])

\* BackgroundMessage::DirectFixApplied (main.rs 728-798)
HandleDirectFixApplied ==
    /\ Receiving("DirectFixApplied")
    /\ chan' = Tail(chan)
    /\ loading' = "None"
    /\ suggestions' = MarkApplied(suggestions, Head(chan).sid)
    /\ pending_changes' = AddPendingChange(pending_changes, Head(chan))
    /\ IF workflow_step = "Verify"
       THEN /\ StartReview(Head(chan).file, ReadOrDefault(Head(chan).backup_path),
                           ReadOrDefault(Head(chan).file))
            /\ review_call' = Some(FirstCall)
            /\ UNCHANGED overlay
       ELSE /\ overlay' = [kind |-> "VerificationReview", reviewing |-> TRUE]
            /\ UNCHANGED <<workflow_step, reviewing, review_state, review_call>>
    /\ verifyTasks' = verifyTasks + 1
    /\ UNCHANGED <<verify_state, changed, disk, staged, tasks, genTasks,
                   nextId, resets, ever, reviewFixTasks>>
    /\ CostStoreFrame

\* BackgroundMessage::DirectFixError (main.rs 799-807)
HandleDirectFixError ==
    /\ Receiving("DirectFixError")
    /\ chan' = Tail(chan)
    /\ loading' = "None"
    /\ IF workflow_step = "Verify"
       THEN workflow_step' = "Suggestions" /\ verify_state' = NoVerify
       ELSE UNCHANGED <<workflow_step, verify_state>>
    /\ UNCHANGED <<suggestions, pending_changes, reviewing, overlay,
                   changed, disk, staged, tasks, genTasks, verifyTasks,
                   nextId, resets, ever>>
    /\ AppFrame

\* App::set_review_findings: the findings of the pass, none of them selected
SetReviewFindings(rs, findings) ==
    [rs EXCEPT !.findings = findings, !.selected = {}]

\* BackgroundMessage::VerificationComplete (main.rs 859-873)
HandleVerificationComplete ==
    /\ Receiving("VerificationComplete")
    /\ chan' = Tail(chan)
    /\ IF workflow_step = "Review"
       THEN /\ reviewing' = FALSE
            /\ review_state' = SetReviewFindings(review_state, Head(chan).findings)
            /\ UNCHANGED overlay
       ELSE /\ overlay' = IF overlay.kind = "VerificationReview"
                          THEN [overlay EXCEPT !.reviewing = FALSE] ELSE overlay
            /\ UNCHANGED <<reviewing, review_state>>
    /\ UNCHANGED <<suggestions, pending_changes, workflow_step, verify_state,
                   loading, changed, disk, staged, tasks, genTasks, verifyTasks,
                   nextId, resets, ever, reviewFixTasks, review_call>>
    /\ CostStoreFrame

\* BackgroundMessage::Error (main.rs 840-843)
HandleError ==
    /\ Receiving("Error")
    /\ chan' = Tail(chan)
    /\ loading' = "None"
    /\ UNCHANGED <<suggestions, pending_changes, workflow_step, verify_state, reviewing,
                   overlay, changed, disk, staged, tasks, genTasks, verifyTasks,
                   nextId, resets, ever>>
    /\ AppFrame

\* app.context.refresh() of the periodic git status refresh (main.rs 564-568)
RefreshContext ==
    /\ \E ch \in ChangeSets \ {changed} : changed' = ch
    /\ UNCHANGED <<suggestions, pending_changes, workflow_step, verify_state, reviewing,
                   overlay, loading, disk, staged, tasks, genTasks, verifyTasks, chan,
                   nextId, resets, ever>>
    /\ AppFrame

----------------------------------------------------------------------------
(* main.rs run_loop: the key handlers *)

NormalMode == overlay.kind = "None"

StoreIndices == 1..Len(suggestions)

IsActive(x) == ~x.dismissed /\ ~x.applied

\* Enter in the Suggestions step (main.rs 2265-2306): start_verify and the
\* preview task for the selected suggestion.
KeyEnterSuggestions ==
    /\ NormalMode
    /\ workflow_step = "Suggestions"
    /\ AllowAi
    /\ CanSpawn
    /\ \E i \in StoreIndices :
          /\ IsActive(suggestions[i])
          /\ workflow_step' = "Verify"
          /\ verify_state' = [suggestion_id |-> Some(suggestions[i].id),
                              file_path |-> Some(suggestions[i].file),
                              preview |-> FALSE]
          /\ Spawn("preview", suggestions[i].id, suggestions[i].file)
    /\ UNCHANGED <<suggestions, pending_changes, reviewing, overlay, loading, changed,
                   disk, staged, genTasks, verifyTasks, chan, nextId, resets, ever>>
    /\ AppFrame

\* Enter in the Verify step (main.rs 2309-2391): the fix task is spawned when
\* the preview is there and the suggestion is still in the store.
KeyEnterVerify ==
    /\ NormalMode
    /\ workflow_step = "Verify"
    /\ verify_state.preview
    /\ IsSome(verify_state.suggestion_id)
    /\ IsSome(verify_state.file_path)
    /\ Find(suggestions, Unwrap(verify_state.suggestion_id)) # 0
    /\ CanSpawn
    /\ loading' = "GeneratingFix"
    /\ Spawn("fix", Unwrap(verify_state.suggestion_id), Unwrap(verify_state.file_path))
    /\ UNCHANGED <<suggestions, pending_changes, workflow_step, verify_state, reviewing,
                   overlay, changed, disk, staged, genTasks, verifyTasks, chan,
                   nextId, resets, ever>>
    /\ AppFrame

\* Esc outside the Suggestions step (main.rs 2464-2467): App::workflow_back
KeyEsc ==
    /\ NormalMode
    /\ workflow_step # "Suggestions"
    /\ workflow_step' = "Suggestions"
    /\ verify_state' = NoVerify
    /\ reviewing' = FALSE
    /\ review_state' = NoReview
    /\ ship_state' = "Confirm"
    /\ UNCHANGED <<suggestions, pending_changes, overlay, loading, changed, disk, staged,
                   tasks, genTasks, verifyTasks, chan, nextId, resets, ever>>
    /\ UNCHANGED <<rvars, cacheFile, llm_summaries, needs_summary_generation,
                   summary_progress, pending_suggestions_on_init, sumTasks, shipTasks,
                   ship_step, handled, reviewFixTasks, review_call>>

\* 'd' (main.rs 2479): App::dismiss_selected
KeyDismiss ==
    /\ NormalMode
    /\ \E i \in StoreIndices :
          /\ IsActive(suggestions[i])
          /\ suggestions' = Dismiss(suggestions, suggestions[i].id)
    /\ UNCHANGED <<pending_changes, workflow_step, verify_state, reviewing, overlay,
                   loading, changed, disk, staged, tasks, genTasks, verifyTasks, chan,
                   nextId, resets, ever>>
    /\ AppFrame

\* 'y' in the FixPreview overlay (main.rs 1226-1327)
OverlayApply ==
    /\ overlay.kind = "FixPreview"
    /\ Find(suggestions, overlay.suggestion_id) # 0
    /\ AllowAi
    /\ CanSpawn
    /\ loading' = "GeneratingFix"
    /\ overlay' = [kind |-> "None"]
    /\ Spawn("fix", overlay.suggestion_id, overlay.file_path)
    /\ UNCHANGED <<suggestions, pending_changes, workflow_step, verify_state, reviewing,
                   changed, disk, staged, genTasks, verifyTasks, chan,
                   nextId, resets, ever>>
    /\ AppFrame

\* 'd' in the FixPreview overlay (main.rs 1380-1385)
OverlayDismiss ==
    /\ overlay.kind = "FixPreview"
    /\ suggestions' = Dismiss(suggestions, overlay.suggestion_id)
    /\ overlay' = [kind |-> "None"]
    /\ UNCHANGED <<pending_changes, workflow_step, verify_state, reviewing,
                   loading, changed, disk, staged, tasks, genTasks, verifyTasks, chan,
                   nextId, resets, ever>>
    /\ AppFrame

\* Esc in the FixPreview overlay, and in the VerificationReview overlay when
\* no review is in progress (main.rs 1557-1561)
OverlayClose ==
    /\ \/ overlay.kind = "FixPreview"
       \/ overlay.kind = "VerificationReview" /\ ~overlay.reviewing
    /\ overlay' = [kind |-> "None"]
    /\ UNCHANGED <<suggestions, pending_changes, workflow_step, verify_state, reviewing,
                   loading, changed, disk, staged, tasks, genTasks, verifyTasks, chan,
                   nextId, resets, ever>>
    /\ AppFrame

\* App::undo_last_pending_change: the last pending change is consumed, the
\* file restored from its backup, the backup removed and the suggestion
\* un-applied; Err (nothing changes) when there is no pending change or the
\* backup cannot be copied back.
UndoLastPendingChange ==
    IF pending_changes = <<>>
    THEN UNCHANGED <<pending_changes, disk, suggestions>>
    ELSE LET p == pending_changes[Len(pending_changes)]
         IN  IF ~IsSome(disk[p.backup_path])
             THEN UNCHANGED <<pending_changes, disk, suggestions>>
             ELSE /\ disk' = [disk EXCEPT ![p.file_path] = disk[p.backup_path],
                                          ![p.backup_path] = None]
                  /\ pending_changes' = SubSeq(pending_changes, 1, Len(pending_changes) - 1)
                  /\ suggestions' = UnmarkApplied(suggestions, p.suggestion_id)

\* Variant of KeyUndo: the undo also leaves the stage for the Suggestions step.
KeyUndoGoingBack ==
    /\ NormalMode
    /\ pending_changes # <<>>
    /\ UndoLastPendingChange
    /\ workflow_step' = "Suggestions"
    /\ UNCHANGED <<verify_state, reviewing, overlay, loading, changed,
                   staged, tasks, genTasks, verifyTasks, chan, nextId, resets, ever>>
    /\ AppFrame

\* 'u' (main.rs 2522-2528)
KeyUndo ==
    /\ NormalMode
    /\ pending_changes # <<>>
    /\ UndoLastPendingChange
    /\ UNCHANGED <<workflow_step, verify_state, reviewing, overlay, loading, changed,
                   staged, tasks, genTasks, verifyTasks, chan, nextId, resets, ever>>
    /\ AppFrame

\* Enter in the Reset overlay with the Suggestions option selected (main.rs
\* 1872-1923, 2034-2070): the store is replaced by an empty one and the
\* context refreshed; with AI available a generation task is dispatched.
ResetSuggestions ==
    /\ NormalMode
    /\ resets < MaxResets
    /\ resets' = resets + 1
    /\ suggestions' = <<>>
    /\ changed' \in ChangeSets
    /\ \/ genTasks' = genTasks + 1 /\ loading' = "GeneratingSuggestions"
       \/ UNCHANGED <<genTasks, loading>>
    /\ UNCHANGED <<pending_changes, workflow_step, verify_state, reviewing, overlay,
                   disk, staged, tasks, verifyTasks, chan, nextId, ever>>
    /\ AppFrame

InitApp ==
    /\ Unlimited
    /\ suggestions = <<>>
    /\ pending_changes = <<>>
    /\ workflow_step = "Suggestions"
    /\ verify_state = NoVerify
    /\ reviewing = FALSE
    /\ overlay = [kind |-> "None"]
    /\ loading = "GeneratingSuggestions"
    /\ changed \in ChangeSets
    /\ disk = [p \in DiskPaths |-> IF p \in Files THEN Some(OrigContent(p)) ELSE None]
    /\ staged = {}
    /\ tasks = <<>>
    /\ genTasks = 1
    /\ verifyTasks = 0
    /\ chan = <<>>
    /\ nextId = 1
    /\ resets = 0
    /\ ever = {}
    /\ IdleRefactor
    /\ IdleBackground
    /\ IdleWorkflow

TaskIds == 1..Len(tasks)

NextApp ==
    \/ GenTaskDone
    \/ VerifyTaskDone
    \/ \E t \in TaskIds : PreviewTaskDone(t)
    \/ \E t \in TaskIds : FixGenerate(t)
    \/ \E t \in TaskIds : FixBackup(t)
    \/ \E t \in TaskIds : FixWrite(t)
    \/ \E t \in TaskIds : FixFinish(t)
    \/ \E t \in TaskIds : FixRestore(t)
    \/ \E t \in TaskIds : FixRemoveBackup(t)
    \/ HandleSuggestionsReady
    \/ HandleSuggestionsError
    \/ HandlePreviewReady
    \/ HandlePreviewError
    \/ HandleDirectFixApplied
    \/ HandleDirectFixError
    \/ HandleVerificationComplete
    \/ HandleError
    \/ RefreshContext
    \/ KeyEnterSuggestions
    \/ KeyEnterVerify
    \/ KeyEsc
    \/ KeyDismiss
    \/ OverlayApply
    \/ OverlayDismiss
    \/ OverlayClose
    \/ KeyUndo
    \/ ResetSuggestions

SpecApp == InitApp /\ [][NextApp]_vars

----------------------------------------------------------------------------
(* Single-file fixes *)

IsPrefix(a, b) == Len(a) <= Len(b) /\ SubSeq(b, 1, Len(a)) = a

\* The four courses a fix task can take, as the calls it makes and how the
\* two calls it branches on turned out
FixOk == <<"copy", "write", "stage", "sendApplied">>
FixGenFailed == <<"sendError">>
FixCopyFailed == <<"copyFailed", "sendError">>
FixWriteFailed == <<"copy", "writeFailed", "restore", "removeBackup", "sendError">>

FixCourses == {FixOk, FixGenFailed, FixCopyFailed, FixWriteFailed}

\* Every fix task follows one of the four courses, and the message it ends
\* with is DirectFixApplied exactly on the course whose write succeeded.
FixOrder ==
    /\ \A t \in TaskIds :
          tasks[t].kind = "fix" => \E c \in FixCourses : IsPrefix(tasks[t].log, c)
    /\ \A i \in 1..Len(chan) :
          /\ chan[i].type = "DirectFixApplied" => chan[i].log = FixOk
          /\ chan[i].type = "DirectFixError" =>
                chan[i].log \in {FixGenFailed, FixCopyFailed, FixWriteFailed}

\* The history of task t after a step: that of its record, or that of the
\* message it ended with
NewLog(t) == IF tasks'[t] = Finished THEN chan'[Len(chan')].log ELSE tasks'[t].log

\* What each step of a fix task does to the files and to the staging area
FixEffects ==
    \A t \in TaskIds :
       (tasks[t].kind = "fix" /\ tasks'[t] # tasks[t]) =>
          LET f == tasks[t].file
              b == BackupPath(f)
              l == tasks[t].log
              n == NewLog(t)
          IN  /\ n = <<"copy">> => disk'[b] = disk[f] /\ disk'[f] = disk[f]
              /\ n = <<"copyFailed", "sendError">> => disk' = disk
              /\ disk'[f] # disk[f] => l \in {<<"copy">>, <<"copy", "writeFailed">>}
              /\ n = <<"copy", "write">> => disk'[f] = Some(t)
              /\ staged' # staged => l = <<"copy", "write">> /\ staged' = staged \cup {f}
              /\ (n = <<"copy", "writeFailed", "restore">> /\ IsSome(disk[b]))
                    => disk'[f] = disk[b]
              /\ l = <<"copy", "writeFailed", "restore">>
                    => /\ disk'[b] = None
                       /\ chan'[Len(chan')].type = "DirectFixError"

----------------------------------------------------------------------------
(* Undo *)

LastPending == pending_changes[Len(pending_changes)]

\* C6: an undo that consumes the most recent pending change leaves the
\* target file with the content it had just before that fix was written, and
\* the suggestion of that change not applied.
C6_UndoRestoresPreApply ==
    [][ (KeyUndo /\ pending_changes' # pending_changes) =>
           /\ disk'[LastPending.file_path] = LastPending.pre
           /\ \A i \in 1..Len(suggestions') :
                 suggestions'[i].id = LastPending.suggestion_id
                    => ~suggestions'[i].applied ]_vars

----------------------------------------------------------------------------
(* The suggestion store *)

\* The positions of the store whose entry has both flags false
ActivePositions == { i \in StoreIndices : ~suggestions[i].dismissed /\ ~suggestions[i].applied }

\* The k-th smallest of the active positions
ActivePosition(k) ==
    CHOOSE i \in ActivePositions : Cardinality({ j \in ActivePositions : j <= i }) = k

\* C7: active_suggestions() is the entries with both flags false, all of
\* them, in store order; none of its entries is dismissed or applied.
C7_ActiveAreUnflagged ==
    LET a == ActiveSuggestions(suggestions)
    IN  /\ Len(a) = Cardinality(ActivePositions)
        /\ \A k \in 1..Len(a) : a[k] = suggestions[ActivePosition(k)]
        /\ \A k \in 1..Len(a) : ~a[k].dismissed /\ ~a[k].applied

\* The store holds an applied entry, a dismissed entry or both next to an
\* active one.
C7_Witness ==
    /\ \E i \in StoreIndices : suggestions[i].applied
    /\ ActiveSuggestions(suggestions) # <<>>
    /\ Len(ActiveSuggestions(suggestions)) < Len(suggestions)

\* Ids the store may be asked about: those handed out and one never handed out
AnyId == 1..(MaxSuggestions + 1)

\* r is store with the flag of the entry with the id set as given, and
\* nothing else changed; store itself when no entry has the id
OnlyFlagSet(store, r, id, dismissed, applied) ==
    /\ Len(r) = Len(store)
    /\ \A i \in 1..Len(store) :
          IF store[i].id = id
          THEN r[i] = [store[i] EXCEPT !.dismissed = IF dismissed THEN TRUE ELSE @,
                                       !.applied = IF applied = None THEN @
                                                   ELSE Unwrap(applied)]
          ELSE r[i] = store[i]
    /\ id \notin Ids(store) => r = store

\* C8: dismiss, mark_applied and unmark_applied set one flag of the entry with
\* the id and leave the other flag, the other entries, the length and the
\* order alone; with an unknown id they change nothing.
C8_OneFlagOnly ==
    \A id \in AnyId :
       /\ OnlyFlagSet(suggestions, Dismiss(suggestions, id), id, TRUE, None)
       /\ OnlyFlagSet(suggestions, MarkApplied(suggestions, id), id, FALSE, Some(TRUE))
       /\ OnlyFlagSet(suggestions, UnmarkApplied(suggestions, id), id, FALSE, Some(FALSE))

\* The unknown id in use: after a reset the store has been filled again, and
\* the most recent pending change names a suggestion the store does not hold,
\* the id that mark_applied or unmark_applied is called with.
C8_Witness ==
    /\ resets > 0
    /\ suggestions # <<>>
    /\ pending_changes # <<>>
    /\ LastPending.suggestion_id \notin Ids(suggestions)

\* C9: an applied suggestion is not among the active ones, and the applied
\* flag of a suggestion is cleared by the undo action only.
C9_AppliedUntilUndo ==
    /\ [](\A i \in StoreIndices :
             suggestions[i].applied =>
                \A k \in 1..Len(ActiveSuggestions(suggestions)) :
                   ActiveSuggestions(suggestions)[k].id # suggestions[i].id)
    /\ [][ (\E i \in StoreIndices : \E j \in 1..Len(suggestions') :
               /\ suggestions[i].applied
               /\ suggestions'[j].id = suggestions[i].id
               /\ ~suggestions'[j].applied)
           => (KeyUndo /\ pending_changes' # pending_changes) ]_vars

\* A fix was applied and undone: its file is staged, nothing is pending or in
\* flight, and its suggestion is active again.
C9_Witness ==
    /\ resets = 0
    /\ pending_changes = <<>>
    /\ chan = <<>>
    /\ \A t \in TaskIds : tasks[t] = Finished
    /\ \E i \in StoreIndices :
          /\ suggestions[i].file \in staged
          /\ ~suggestions[i].applied
          /\ ~suggestions[i].dismissed

\* C10 as stated: every id that was ever in the store is in the store.
C10_NeverDeleted == ever \subseteq Ids(suggestions)

\* C10: add, dismiss, apply and undo keep every id in the store; ids leave
\* the store only by a reset, which empties it.
C10_DeletedOnlyByReset ==
    /\ [](resets = 0 => ever \subseteq Ids(suggestions))
    /\ [][ Ids(suggestions) \subseteq Ids(suggestions')
           \/ (suggestions' = <<>> /\ resets' = resets + 1) ]_vars

\* Without a reset the store holds all the suggestions generated, one of
\* them applied and then dismissed, and a fix of it undone.
C10_Witness ==
    /\ resets = 0
    /\ Len(suggestions) > 1
    /\ ever = Ids(suggestions)
    /\ \E i \in StoreIndices : suggestions[i].dismissed /\ suggestions[i].file \in staged
    /\ \E i \in StoreIndices : suggestions[i].applied

----------------------------------------------------------------------------
(* suggest/mod.rs: sort_with_context on arbitrary stores *)

MaxSortLen == 2

SuggestionKind == {"Improvement", "BugFix", "Feature", "Optimization", "Quality",
                   "Documentation", "Testing", "Refactoring"}

Priority == {"Low", "Medium", "High"}

\* A file with no import relation to the other two
FileToml == <<"y", "toml">>

SortFiles == Files \cup {FileToml}

\* context.all_changed_files()
SortChangeSets == { {}, {FileRs}, {FilePy} }

\* created_at values
Timestamps == {1, 2}

SuggestionAttributes ==
    [kind : SuggestionKind, priority : Priority, file : SortFiles, created_at : Timestamps]

\* Fewer attributes, for the longer stores
CoreAttributes ==
    [kind : {"BugFix", "Quality", "Documentation"}, priority : {"Low", "High"},
     file : SortFiles, created_at : Timestamps]

\* The stores of n suggestions with attributes of a set; the id of a
\* suggestion is the position it is given at.
StoresOf(attributes, n) ==
    { [i \in 1..n |-> [id |-> i, kind |-> a[i].kind, priority |-> a[i].priority,
                       file |-> a[i].file, created_at |-> a[i].created_at,
                       dismissed |-> FALSE, applied |-> FALSE]] :
         a \in [1..n -> attributes] }

SortFrame ==
    UNCHANGED <<pending_changes, workflow_step, verify_state, reviewing, overlay,
                loading, disk, staged, tasks, genTasks, verifyTasks, chan, nextId,
                resets, ever, rvars, svars, wvars>>

InitSort ==
    /\ Unlimited
    /\ suggestions \in (UNION { StoresOf(SuggestionAttributes, n) : n \in 0..MaxSortLen })
                          \cup StoresOf(CoreAttributes, MaxSortLen + 1)
    /\ changed \in SortChangeSets
    /\ pending_changes = <<>>
    /\ workflow_step = "Suggestions"
    /\ verify_state = NoVerify
    /\ reviewing = FALSE
    /\ overlay = [kind |-> "None"]
    /\ loading = "None"
    /\ disk = <<>>
    /\ staged = {}
    /\ tasks = <<>>
    /\ genTasks = 0
    /\ verifyTasks = 0
    /\ chan = <<>>
    /\ nextId = 1
    /\ resets = 0
    /\ ever = {}
    /\ IdleRefactor
    /\ IdleBackground
    /\ IdleWorkflow

\* sort_with_context(&context)
SortStore ==
    /\ suggestions' = SortWithContext(suggestions, changed)
    /\ UNCHANGED changed
    /\ SortFrame

\* context.refresh(): the change set becomes another one
SortRefresh ==
    /\ changed' \in SortChangeSets \ {changed}
    /\ UNCHANGED suggestions
    /\ SortFrame

NextSort == SortStore \/ SortRefresh

SpecSort == InitSort /\ [][NextSort]_vars

\* The position of the suggestion with the id in a store
PositionOf(store, id) == CHOOSE i \in 1..Len(store) : store[i].id = id

IsPermutation(a, b) ==
    /\ Len(a) = Len(b)
    /\ \A i \in 1..Len(a) : \E j \in 1..Len(b) : b[j] = a[i]
    /\ \A j \in 1..Len(b) : \E i \in 1..Len(a) : b[j] = a[i]

\* f has uncommitted changes; f is a file a changed file depends on, or that
\* depends on a changed file, and is not changed itself
IsChanged(f, ch) == f \in ch
InBlastRadius(f, ch) ==
    /\ f \notin ch
    /\ \E c \in ch : f \in DependsOn(c) \/ c \in DependsOn(f)

\* C11: after sort_with_context every suggestion on a changed file precedes
\* every suggestion on an unchanged file, and among the unchanged ones every
\* suggestion on a blast-radius file precedes every suggestion on a file with
\* no relation to a change.
C11_ChangedThenBlastFirst ==
    [][ SortStore =>
          /\ IsPermutation(suggestions, suggestions')
          /\ \A i \in 1..Len(suggestions') : \A j \in 1..Len(suggestions') :
                LET a == suggestions'[i]
                    b == suggestions'[j]
                IN  /\ (IsChanged(a.file, changed) /\ ~IsChanged(b.file, changed)) => i < j
                    /\ (/\ ~IsChanged(a.file, changed)
                        /\ ~IsChanged(b.file, changed)
                        /\ InBlastRadius(a.file, changed)
                        /\ ~InBlastRadius(b.file, changed)) => i < j ]_vars

\* A Low suggestion on a changed file has been sorted before a High one on an
\* unchanged file.
C11_Witness ==
    /\ Len(suggestions) = 2
    /\ suggestions[1].id = 2
    /\ suggestions[1].priority = "Low"
    /\ suggestions[2].priority = "High"
    /\ IsChanged(suggestions[1].file, changed)
    /\ ~IsChanged(suggestions[2].file, changed)

\* a and b are in the same changed / blast-radius class
SameClass(a, b, ch) ==
    /\ IsChanged(a.file, ch) <=> IsChanged(b.file, ch)
    /\ InBlastRadius(a.file, ch) <=> InBlastRadius(b.file, ch)

PriorityLevel(p) == CASE p = "High" -> 3 [] p = "Medium" -> 2 [] p = "Low" -> 1

\* The kind order as stated: Quality, Documentation and Improvement together
StatedKindRank(k) ==
    CASE k = "BugFix" -> 5
      [] k = "Refactoring" -> 4
      [] k = "Optimization" -> 3
      [] k = "Testing" -> 2
      [] k \in {"Quality", "Documentation", "Improvement"} -> 1
      [] k = "Feature" -> 0

\* The kind order with Quality above Documentation and Improvement
KindRank(k) ==
    CASE k = "BugFix" -> 6
      [] k = "Refactoring" -> 5
      [] k = "Optimization" -> 4
      [] k = "Testing" -> 3
      [] k = "Quality" -> 2
      [] k \in {"Documentation", "Improvement"} -> 1
      [] k = "Feature" -> 0

\* a may precede b: priority, then the kind rank, then the newer one first
MayPrecede(a, b, Rank(_)) ==
    \/ PriorityLevel(a.priority) > PriorityLevel(b.priority)
    \/ /\ PriorityLevel(a.priority) = PriorityLevel(b.priority)
       /\ \/ Rank(a.kind) > Rank(b.kind)
          \/ Rank(a.kind) = Rank(b.kind) /\ a.created_at >= b.created_at

OrderedWithinClasses(store, ch, Rank(_)) ==
    \A i \in 1..Len(store) : \A j \in 1..Len(store) :
       (i < j /\ SameClass(store[i], store[j], ch))
          => MayPrecede(store[i], store[j], Rank)

\* C12 as stated: within a class the order is priority, then the kind weight
\* with Quality, Documentation and Improvement weighing the same, then the
\* most recently created first.
C12_StatedKindOrder ==
    [][ SortStore => OrderedWithinClasses(suggestions', changed, StatedKindRank) ]_vars

\* C12: within a class the order is priority, then the kind weight BugFix >
\* Refactoring > Optimization > Testing > Quality > {Documentation,
\* Improvement} > Feature, then the most recently created first.
C12_PriorityKindNewest ==
    [][ SortStore => OrderedWithinClasses(suggestions', changed, KindRank) ]_vars

\* An older Quality suggestion has been sorted before a newer Documentation
\* suggestion of the same class and priority.
C12_Witness ==
    /\ Len(suggestions) = 2
    /\ suggestions[1].id = 2
    /\ suggestions[1].kind = "Quality"
    /\ suggestions[2].kind = "Documentation"
    /\ suggestions[1].created_at < suggestions[2].created_at
    /\ suggestions[1].priority = suggestions[2].priority
    /\ SameClass(suggestions[1], suggestions[2], changed)

\* a and b compare equal on the five keys
EqualOnAllKeys(a, b, ch) ==
    /\ SameClass(a, b, ch)
    /\ a.priority = b.priority
    /\ KindRank(a.kind) = KindRank(b.kind)
    /\ a.created_at = b.created_at

\* C13: sorting the sorted store again with the same change set gives the
\* same order, and suggestions equal on all five keys keep their relative
\* order.
C13_StableIdempotent ==
    LET r == SortWithContext(suggestions, changed)
    IN  /\ IsPermutation(suggestions, r)
        /\ SortWithContext(r, changed) = r
        /\ \A i \in 1..Len(suggestions) : \A j \in 1..Len(suggestions) :
              (i < j /\ EqualOnAllKeys(suggestions[i], suggestions[j], changed))
                 => PositionOf(r, suggestions[i].id) < PositionOf(r, suggestions[j].id)

\* A sort has moved a suggestion past two that are equal on all keys, and
\* these two are in the order they were given in.
C13_Witness ==
    /\ Len(suggestions) = 3
    /\ suggestions[1].id = 2
    /\ suggestions[2].id = 3
    /\ suggestions[3].id = 1
    /\ EqualOnAllKeys(suggestions[1], suggestions[2], changed)
    /\ suggestions = SortWithContext(suggestions, changed)

----------------------------------------------------------------------------
(* The order of the store in the run loop *)

\* C14: in every state of the run loop the store is in the five-key order of
\* the current change set.
C14_OrderIsCurrent == suggestions = SortWithContext(suggestions, changed)

----------------------------------------------------------------------------
(* Results of tasks the user has left behind *)

\* The message at the head of the channel is the result of a preview task, and
\* the workflow is no longer in the Verify step for the suggestion of that task.
StalePreviewResult ==
    /\ Receiving("PreviewReady")
    /\ ~ (/\ workflow_step = "Verify"
          /\ verify_state.suggestion_id = Some(Head(chan).sid))

\* C20: the result or failure of a stale task is discarded: handling a
\* PreviewReady whose workflow is no longer in the Verify step for the same
\* suggestion changes neither the workflow step, nor the verify
\* state, nor what is shown to the user (the overlay).
C20_StaleResultDiscarded ==
    [][ (StalePreviewResult /\ chan' = Tail(chan))
           => UNCHANGED <<workflow_step, verify_state, overlay>> ]_vars

----------------------------------------------------------------------------
(* main.rs: summary generation. The cache (crate::cache) and the tiers
   (suggest::llm::prioritize_files_for_summary) follow the specification. *)

NumFiles == 19
BatchSize == 16

SummaryFiles == 1..NumFiles

\* cache::compute_file_hashes: the fingerprint of the current content of a
\* file, and a fingerprint of some earlier content of it.
FileHash(f) == 100 + f
OldHash(f) == 200 + f

\* LlmSummaryCache::new
NewCache == [f \in SummaryFiles |-> None]

\* needsRegeneration(path, currentFingerprint): the stored entry is valid only
\* while its fingerprint equals the current one.
NeedsRegeneration(cache, f) == cache[f] # Some(FileHash(f))

\* LlmSummaryCache::get_all_valid_summaries(&file_hashes)
GetAllValidSummaries(cache) == { f \in SummaryFiles : ~ NeedsRegeneration(cache, f) }

\* LlmSummaryCache::get_files_needing_summary(&file_hashes)
GetFilesNeedingSummary(cache) == { f \in SummaryFiles : NeedsRegeneration(cache, f) }

\* LlmSummaryCache::set_summary(path, summary, hash)
SetSummary(cache, f) == [cache EXCEPT ![f] = Some(FileHash(f))]

RECURSIVE SetSummaries(_, _)
SetSummaries(cache, files) ==
    IF files = <<>> THEN cache
    ELSE SetSummaries(SetSummary(cache, Head(files)), Tail(files))

\* The caches a session can start with: files 1..valid hold a summary of their
\* current content, the files of stale one of an earlier content.
CacheWith(valid, stale) ==
    [f \in SummaryFiles |->
        IF f \in stale THEN Some(OldHash(f))
        ELSE IF f <= valid THEN Some(FileHash(f)) ELSE None]

StartCaches == { CacheWith(0, {}), CacheWith(1, {2}), CacheWith(NumFiles, {}) }

\* The files of the index; with config.summarize_changed_only (main.rs
\* 342-361) the files needing a summary are cut down to the changed files and
\* their neighbours.
RetainSets(cache) ==
    IF cache = CacheWith(1, {2}) THEN { SummaryFiles, {1, 2, NumFiles} } ELSE { SummaryFiles }

RECURSIVE SeqOf(_)
SeqOf(S) ==
    IF S = {} THEN <<>>
    ELSE LET m == CHOOSE x \in S : \A y \in S : x <= y
         IN  <<m>> \o SeqOf(S \ {m})

Range(q) == { q[i] : i \in 1..Len(q) }

\* prioritize_files_for_summary(&index, &context, &files): each file needing
\* a summary goes to one of three tiers, by its relation to the changed files.
TierOf(context, f) ==
    IF context = {} THEN "high"
    ELSE IF f = 1 THEN "medium" ELSE IF f = 2 THEN "low" ELSE "high"

PrioritizeFilesForSummary(context, files) ==
    [tier \in {"high", "medium", "low"} |->
        SeqOf({ f \in files : TierOf(context, f) = tier })]

\* Variant of Chunks: one batch per tier.
ChunksOfAll(files, n) == IF files = <<>> THEN <<>> ELSE <<files>>

\* files.chunks(batch_size)
RECURSIVE Chunks(_, _)
Chunks(files, n) ==
    IF Len(files) <= n
    THEN IF files = <<>> THEN <<>> ELSE <<files>>
    ELSE <<SubSeq(files, 1, n)>> \o Chunks(SubSeq(files, n + 1, Len(files)), n)

\* The loop over priority_tiers (main.rs 421-435): the batches of a task in
\* the order it submits them; an empty tier has none.
TierBatches(tiers, name) ==
    LET chunks == Chunks(tiers[name], BatchSize)
    IN  [i \in 1..Len(chunks) |-> [tier |-> name, files |-> chunks[i]]]

PriorityTiers(tiers) ==
    TierBatches(tiers, "high") \o TierBatches(tiers, "medium") \o TierBatches(tiers, "low")

\* A summary task as spawned (main.rs 388-419, 1938-1975). valid, files and
\* calls are history: the files that held a valid summary when the task was
\* set up, the files handed to it, and the batches it has submitted to
\* generate_summaries_for_files.
NewSummaryTask(origin, valid, tiers, cache) ==
    [origin |-> origin,
     valid |-> valid,
     files |-> Range(tiers["high"]) \cup Range(tiers["medium"]) \cup Range(tiers["low"]),
     todo |-> PriorityTiers(tiers),
     pc |-> IF origin = "startup" THEN "load" ELSE "batch",
     llm_cache |-> cache,
     batch |-> <<>>,
     completed_count |-> 0,
     total |-> Len(tiers["high"]) + Len(tiers["medium"]) + Len(tiers["low"]),
     sent |-> 0,
     calls |-> <<>>]

BackgroundFrame ==
    UNCHANGED <<pending_changes, verify_state, reviewing, changed, disk, staged,
                tasks, verifyTasks, ever, rvars, wvars>>

CostBackgroundFrame ==
    /\ UNCHANGED <<pending_changes, verify_state, reviewing, changed, disk, staged,
                   tasks, verifyTasks, ever, fvars, wvars>>
    /\ TrackCost

\* The start-up task loads the cache it updates (main.rs 407-410)
SummaryLoad(t) ==
    /\ sumTasks[t].pc = "load"
    /\ sumTasks' = [sumTasks EXCEPT ![t].pc = "batch", ![t].llm_cache = cacheFile]
    /\ UNCHANGED <<suggestions, workflow_step, overlay, loading, genTasks, chan, nextId,
                   resets, cacheFile, llm_summaries, needs_summary_generation,
                   summary_progress, pending_suggestions_on_init, shipTasks, ship_state,
                   ship_step, handled>>
    /\ BackgroundFrame

\* generate_summaries_for_files on the next batch (main.rs 438-446): on Ok
\* every file of the batch gets its summary set in the task's cache; a failed
\* batch is passed over.
SummaryGenerate(t) ==
    /\ sumTasks[t].pc = "batch"
    /\ sumTasks[t].todo # <<>>
    /\ LET b == Head(sumTasks[t].todo) IN
          \/ sumTasks' = [sumTasks EXCEPT
                             ![t].calls = Append(@, b),
                             ![t].pc = "save",
                             ![t].batch = b.files,
                             ![t].llm_cache = SetSummaries(@, b.files)]
          \/ sumTasks' = [sumTasks EXCEPT
                             ![t].calls = Append(@, b),
                             ![t].todo = Tail(@)]
    /\ UNCHANGED <<suggestions, workflow_step, overlay, loading, genTasks, chan, nextId,
                   resets, cacheFile, llm_summaries, needs_summary_generation,
                   summary_progress, pending_suggestions_on_init, shipTasks, ship_state,
                   ship_step, handled>>
    /\ BackgroundFrame

\* save_llm_summaries_cache(&llm_cache) (main.rs 450-452): the file becomes
\* the cache of the task.
SummarySave(t) ==
    /\ sumTasks[t].pc = "save"
    /\ cacheFile' = sumTasks[t].llm_cache
    /\ sumTasks' = [sumTasks EXCEPT ![t].pc = "send"]
    /\ UNCHANGED <<suggestions, workflow_step, overlay, loading, genTasks, chan, nextId,
                   resets, llm_summaries, needs_summary_generation,
                   summary_progress, pending_suggestions_on_init, shipTasks, ship_state,
                   ship_step, handled>>
    /\ BackgroundFrame

\* A message of a summary or ship task; task and seq are history: the sender
\* and the position of the message among those the sender sent.
TaskMsg(type, kind, t, seq) == [type |-> type, kind |-> kind, task |-> t, seq |-> seq]

\* completed_count += summaries.len(); send SummaryProgress (main.rs 454-463)
SummarySend(t) ==
    /\ sumTasks[t].pc = "send"
    /\ LET done == sumTasks[t].completed_count + Len(sumTasks[t].batch) IN
          /\ Send(TaskMsg("SummaryProgress", "summary", t, sumTasks[t].sent + 1) @@
                  [completed |-> done, total |-> sumTasks[t].total,
                   summaries |-> Range(sumTasks[t].batch)])
          /\ sumTasks' = [sumTasks EXCEPT
                             ![t].pc = "batch",
                             ![t].completed_count = done,
                             ![t].todo = Tail(@),
                             ![t].batch = <<>>,
                             ![t].sent = @ + 1]
    /\ UNCHANGED <<suggestions, workflow_step, overlay, loading, genTasks, nextId,
                   resets, cacheFile, llm_summaries, needs_summary_generation,
                   summary_progress, pending_suggestions_on_init, shipTasks, ship_state,
                   ship_step, handled>>
    /\ BackgroundFrame

\* After the last tier: send SummariesReady (main.rs 474-484)
SummaryFinish(t) ==
    /\ sumTasks[t].pc = "batch"
    /\ sumTasks[t].todo = <<>>
    /\ Send(TaskMsg("SummariesReady", "summary", t, sumTasks[t].sent + 1))
    /\ sumTasks' = [sumTasks EXCEPT ![t].pc = "done", ![t].sent = @ + 1]
    /\ UNCHANGED <<suggestions, workflow_step, overlay, loading, genTasks, nextId,
                   resets, cacheFile, llm_summaries, needs_summary_generation,
                   summary_progress, pending_suggestions_on_init, shipTasks, ship_state,
                   ship_step, handled>>
    /\ BackgroundFrame

\* tokio::spawn of the suggestion task (main.rs 501-524, 651-675, 2044-2068)
SpawnSuggestions ==
    /\ loading' = "GeneratingSuggestions"
    /\ genTasks' = genTasks + 1

HandledOf(kind, t) == { h \in handled : h.kind = kind /\ h.task = t }

Handle(m) ==
    handled' = handled \cup {[kind |-> m.kind, task |-> m.task, type |-> m.type,
                              seq |-> m.seq,
                              pos |-> Cardinality(HandledOf(m.kind, m.task)) + 1]}

\* BackgroundMessage::SummaryProgress (main.rs 695-700)
HandleSummaryProgress ==
    /\ Receiving("SummaryProgress")
    /\ chan' = Tail(chan)
    /\ Handle(Head(chan))
    /\ llm_summaries' = llm_summaries \cup Head(chan).summaries
    /\ summary_progress' = Some(<<Head(chan).completed, Head(chan).total>>)
    /\ UNCHANGED <<suggestions, workflow_step, overlay, loading, genTasks, nextId,
                   resets, cacheFile, needs_summary_generation,
                   pending_suggestions_on_init, sumTasks, shipTasks, ship_state,
                   ship_step>>
    /\ BackgroundFrame

\* BackgroundMessage::SummariesReady (main.rs 612-694): the message carries no
\* summaries. With the pending flag set the suggestion task is spawned, when
\* the model is still available.
HandleSummariesReady ==
    /\ Receiving("SummariesReady")
    /\ chan' = Tail(chan)
    /\ Handle(Head(chan))
    /\ summary_progress' = None
    /\ needs_summary_generation' = FALSE
    /\ IF pending_suggestions_on_init
       THEN /\ pending_suggestions_on_init' = FALSE
            /\ \/ SpawnSuggestions
               \/ loading' = "None" /\ UNCHANGED genTasks
       ELSE /\ loading' = IF loading # "GeneratingSuggestions" THEN "None" ELSE loading
            /\ UNCHANGED <<pending_suggestions_on_init, genTasks>>
    /\ UNCHANGED <<suggestions, workflow_step, overlay, nextId, resets, cacheFile,
                   llm_summaries, sumTasks, shipTasks, ship_state, ship_step>>
    /\ CostBackgroundFrame

\* Enter in the Reset overlay (main.rs 1872-2070) with Suggestions and / or
\* Summaries selected. Cache::clear_selective deletes the cache of summaries
\* when Summaries is selected. No file of the working tree changes in this
\* machine, so context.refresh() finds the change set it found before.
ResetEnter ==
    /\ NormalMode
    /\ resets < MaxResets
    /\ resets' = resets + 1
    /\ \E needs_suggestions, needs_summaries, ai_enabled \in BOOLEAN :
          /\ needs_suggestions \/ needs_summaries
          /\ suggestions' = IF needs_suggestions THEN <<>> ELSE suggestions
          /\ cacheFile' = IF needs_summaries THEN NewCache ELSE cacheFile
          /\ llm_summaries' = IF needs_summaries THEN {} ELSE llm_summaries
          /\ needs_summary_generation' = (needs_summaries \/ needs_summary_generation)
          /\ IF needs_summaries /\ ai_enabled
             THEN    LET tiers == PrioritizeFilesForSummary(changed, SummaryFiles)
                         task == NewSummaryTask("reset", GetAllValidSummaries(NewCache),
                                                tiers, NewCache)
                     IN  /\ task.total > 0
                         /\ loading' = "GeneratingSummaries"
                         /\ summary_progress' = Some(<<0, task.total>>)
                         /\ pending_suggestions_on_init' =
                                (needs_suggestions \/ pending_suggestions_on_init)
                         /\ sumTasks' = Append(sumTasks, task)
                         /\ UNCHANGED genTasks
             ELSE /\ summary_progress' = IF needs_summaries THEN None ELSE summary_progress
                  /\ IF needs_suggestions /\ ai_enabled
                     THEN SpawnSuggestions
                     ELSE UNCHANGED <<loading, genTasks>>
                  /\ UNCHANGED <<pending_suggestions_on_init, sumTasks>>
    /\ UNCHANGED <<pending_changes, workflow_step, verify_state, reviewing, overlay,
                   changed, disk, staged, tasks, verifyTasks, chan, nextId, ever,
                   shipTasks, ship_state, ship_step, handled, rvars, wvars>>

----------------------------------------------------------------------------
(* main.rs: the ship task *)

\* A ship task: the workflow's (main.rs 2412-2447) sends ShipProgress first,
\* the ship dialog's (main.rs 1480-1532) stages the files first. done is
\* history: the version-control steps that succeeded.
NewShipTask(path) ==
    [path |-> path, pc |-> IF path = "workflow" THEN "start" ELSE "stage",
     sent |-> 0, done |-> {}]

\* Enter in the Ship step (main.rs 2400-2458). Confirm: the ship task is
\* spawned. Done: App::workflow_complete.
KeyEnterShip ==
    /\ NormalMode
    /\ workflow_step = "Ship"
    /\ \/ /\ ship_state = "Confirm"
          /\ ship_state' = "Committing"
          /\ shipTasks' = Append(shipTasks, NewShipTask("workflow"))
          /\ UNCHANGED <<workflow_step, pending_changes>>
       \/ /\ ship_state = "Done"
          /\ workflow_step' = "Suggestions"
          /\ ship_state' = "Confirm"
          /\ pending_changes' = <<>>
          /\ UNCHANGED shipTasks
    /\ UNCHANGED <<suggestions, verify_state, reviewing, overlay, loading, changed, disk,
                   staged, tasks, genTasks, verifyTasks, chan, nextId, resets, ever,
                   cacheFile, llm_summaries, needs_summary_generation, summary_progress,
                   pending_suggestions_on_init, sumTasks, ship_step, handled,
                   rvars, wvars>>

ShipFrame ==
    UNCHANGED <<suggestions, pending_changes, workflow_step, verify_state, reviewing,
                overlay, loading, changed, disk, staged, tasks, genTasks, verifyTasks,
                nextId, resets, ever, cacheFile, llm_summaries,
                needs_summary_generation, summary_progress,
                pending_suggestions_on_init, sumTasks, ship_state, ship_step,
                handled, rvars, wvars>>

\* What the text of a ShipError tells: the workflow's task sends
\* e.to_string() alone (main.rs 2418, 2426, 2444), the dialog's task puts the
\* failed stage in front of it and, after a push, the advice to create the
\* pull request manually (main.rs 1491-1527).
ErrorText(path, type, step) ==
    IF type = "ShipError" /\ path = "dialog"
    THEN [stage |-> Some(step), manual |-> (step = "CreatingPR")]
    ELSE [stage |-> None, manual |-> FALSE]

\* The version-control step whose success a message of the ship task reports
Completed(type, step) ==
    IF type = "ShipProgress" /\ step = "Pushing" THEN {"commit"}
    ELSE IF type = "ShipProgress" /\ step = "CreatingPR" THEN {"push"}
    ELSE IF type = "ShipComplete" THEN {"pr"}
    ELSE {}

ShipSend(t, type, step, pc) ==
    /\ Send(TaskMsg(type, "ship", t, shipTasks[t].sent + 1) @@ [step |-> step] @@
            ErrorText(shipTasks[t].path, type, step))
    /\ shipTasks' = [shipTasks EXCEPT ![t].pc = pc, ![t].sent = @ + 1,
                                      ![t].done = @ \cup Completed(type, step)]
    /\ ShipFrame

\* git_ops::stage_file for each file and the check that something is staged
\* (main.rs 1481-1502)
ShipStage(t) ==
    /\ shipTasks[t].pc = "stage"
    /\ \/ /\ shipTasks' = [shipTasks EXCEPT ![t].pc = "commit"]
          /\ UNCHANGED chan
          /\ ShipFrame
       \/ ShipSend(t, "ShipError", "Staging", "done")

\* send ShipProgress(Committing) (main.rs 2414)
ShipStart(t) ==
    /\ shipTasks[t].pc = "start"
    /\ ShipSend(t, "ShipProgress", "Committing", "commit")

\* git_ops::commit (main.rs 2417-2422)
ShipCommit(t) ==
    /\ shipTasks[t].pc = "commit"
    /\ \/ ShipSend(t, "ShipProgress", "Pushing", "push")
       \/ ShipSend(t, "ShipError", "Committing", "done")

\* git_ops::push_branch (main.rs 2425-2430)
ShipPush(t) ==
    /\ shipTasks[t].pc = "push"
    /\ \/ ShipSend(t, "ShipProgress", "CreatingPR", "pr")
       \/ ShipSend(t, "ShipError", "Pushing", "done")

\* git_ops::create_pr (main.rs 2439-2446)
ShipCreatePr(t) ==
    /\ shipTasks[t].pc = "pr"
    /\ \/ ShipSend(t, "ShipComplete", "Done", "done")
       \/ ShipSend(t, "ShipError", "CreatingPR", "done")

\* App::update_ship_step: the step shown by the ship dialog
UpdateShipStep(step) ==
    IF overlay.kind = "ShipDialog" THEN [overlay EXCEPT !.step = step] ELSE overlay

ShipHandlerFrame ==
    UNCHANGED <<suggestions, workflow_step, verify_state, reviewing, loading, changed,
                disk, staged, tasks, genTasks, verifyTasks, nextId, resets, ever,
                cacheFile, llm_summaries, needs_summary_generation, summary_progress,
                pending_suggestions_on_init, sumTasks, shipTasks, rvars, wvars>>

\* BackgroundMessage::ShipProgress (main.rs 808-816)
HandleShipProgress ==
    /\ Receiving("ShipProgress")
    /\ chan' = Tail(chan)
    /\ Handle(Head(chan))
    /\ IF workflow_step = "Ship"
       THEN ship_state' = Head(chan).step /\ UNCHANGED <<ship_step, overlay>>
       ELSE /\ ship_step' = Some(Head(chan).step)
            /\ overlay' = UpdateShipStep(Head(chan).step)
            /\ UNCHANGED ship_state
    /\ UNCHANGED pending_changes
    /\ ShipHandlerFrame

\* BackgroundMessage::ShipComplete (main.rs 817-828)
HandleShipComplete ==
    /\ Receiving("ShipComplete")
    /\ chan' = Tail(chan)
    /\ Handle(Head(chan))
    /\ IF workflow_step = "Ship"
       THEN ship_state' = "Done" /\ UNCHANGED <<ship_step, pending_changes, overlay>>
       ELSE /\ ship_step' = Some("Done")
            /\ overlay' = UpdateShipStep("Done")
            /\ pending_changes' = <<>>
            /\ UNCHANGED ship_state
    /\ ShipHandlerFrame

\* BackgroundMessage::ShipError (main.rs 829-833)
HandleShipError ==
    /\ Receiving("ShipError")
    /\ chan' = Tail(chan)
    /\ Handle(Head(chan))
    /\ ship_step' = None
    /\ overlay' = [kind |-> "None"]
    /\ UNCHANGED <<pending_changes, ship_state>>
    /\ ShipHandlerFrame

----------------------------------------------------------------------------
(* main.rs run_tui: the state in which run_loop starts *)

\* Variant of StartupFiles: every file of the index is handed over.
StartupFilesAll(cache, retain) == SummaryFiles

\* The files handed to the start-up summary task (main.rs 339-362)
StartupFiles(cache, retain) == GetFilesNeedingSummary(cache) \cap retain

\* main.rs 314-530: the valid summaries of the cache are loaded at once; with
\* the model available either the summary task is spawned and the suggestions
\* wait for it, or the suggestion task is spawned.
InitStartup ==
    \E cache \in StartCaches, context \in ChangeSets, ai_enabled \in BOOLEAN :
    \E retain \in RetainSets(cache) :
       LET needing == StartupFiles(cache, retain)
           tiers == PrioritizeFilesForSummary(context, needing)
           task == NewSummaryTask("startup", GetAllValidSummaries(cache), tiers, NewCache)
       IN  /\ cacheFile = cache
           /\ llm_summaries = GetAllValidSummaries(cache)
           /\ needs_summary_generation = (needing # {})
           /\ IF ai_enabled /\ needing # {}
              THEN /\ loading = "GeneratingSummaries"
                   /\ pending_suggestions_on_init = TRUE
                   /\ summary_progress = Some(<<0, Cardinality(needing)>>)
                   /\ sumTasks = <<task>>
                   /\ genTasks = 0
              ELSE /\ loading = IF ai_enabled THEN "GeneratingSuggestions" ELSE "None"
                   /\ pending_suggestions_on_init = FALSE
                   /\ summary_progress = None
                   /\ sumTasks = <<>>
                   /\ genTasks = IF ai_enabled THEN 1 ELSE 0
           /\ suggestions = <<>>
           /\ pending_changes = <<>>
           /\ workflow_step = "Suggestions"
           /\ verify_state = NoVerify
           /\ reviewing = FALSE
           /\ overlay = [kind |-> "None"]
           /\ changed = context
           /\ disk = [p \in DiskPaths |-> IF p \in Files THEN Some(OrigContent(p)) ELSE None]
           /\ staged = {}
           /\ tasks = <<>>
           /\ verifyTasks = 0
           /\ chan = <<>>
           /\ nextId = 1
           /\ resets = 0
           /\ ever = {}
           /\ IdleWorkflow

\* A session whose workflow has reached the Ship step: suggestion 1 was
\* previewed (task 1) and applied (task 2), its review passed, nothing is
\* being generated and every file holds a valid summary.
InitShipConfirm ==
    /\ suggestions = <<[NewSuggestion(1) EXCEPT !.applied = TRUE]>>
    /\ pending_changes = <<[suggestion_id |-> 1, file_path |-> FileRs,
                            backup_path |-> BackupPath(FileRs),
                            pre |-> Some(OrigContent(FileRs))]>>
    /\ workflow_step = "Ship"
    /\ verify_state = [suggestion_id |-> Some(1), file_path |-> Some(FileRs),
                       preview |-> TRUE]
    /\ reviewing = FALSE
    /\ overlay = [kind |-> "None"]
    /\ loading = "None"
    /\ changed = {FileRs}
    /\ disk = [p \in DiskPaths |->
                 IF p = FileRs THEN Some(2)
                 ELSE IF p = FilePy THEN Some(OrigContent(p))
                 ELSE IF p = BackupPath(FileRs) THEN Some(OrigContent(FileRs))
                 ELSE None]
    /\ staged = {FileRs}
    /\ tasks = <<Finished, Finished>>
    /\ genTasks = 0
    /\ verifyTasks = 0
    /\ chan = <<>>
    /\ nextId = 2
    /\ resets = 0
    /\ ever = {1}
    /\ review_state = [file_path |-> Some(FileRs),
                       original_content |-> OrigContent(FileRs),
                       new_content |-> 2, findings |-> {}, selected |-> {},
                       fixing |-> FALSE, review_iteration |-> 1, fixed_titles |-> {}]
    /\ reviewFixTasks = 0
    /\ review_call = Some(FirstCall)
    /\ cacheFile = [f \in SummaryFiles |-> Some(FileHash(f))]
    /\ llm_summaries = SummaryFiles
    /\ needs_summary_generation = FALSE
    /\ summary_progress = None
    /\ pending_suggestions_on_init = FALSE
    /\ sumTasks = <<>>

InitBackground ==
    /\ Unlimited
    /\ InitStartup \/ InitShipConfirm
    /\ shipTasks = <<>>
    /\ ship_state = "Confirm"
    /\ ship_step = None
    /\ handled = {}
    /\ IdleRefactor

SummaryTaskIds == 1..Len(sumTasks)
ShipTaskIds == 1..Len(shipTasks)

NextBackground ==
    \/ \E t \in SummaryTaskIds : SummaryLoad(t)
    \/ \E t \in SummaryTaskIds : SummaryGenerate(t)
    \/ \E t \in SummaryTaskIds : SummarySave(t)
    \/ \E t \in SummaryTaskIds : SummarySend(t)
    \/ \E t \in SummaryTaskIds : SummaryFinish(t)
    \/ GenTaskDone
    \/ \E t \in ShipTaskIds : ShipStart(t)
    \/ \E t \in ShipTaskIds : ShipCommit(t)
    \/ \E t \in ShipTaskIds : ShipPush(t)
    \/ \E t \in ShipTaskIds : ShipCreatePr(t)
    \/ HandleSummaryProgress
    \/ HandleSummariesReady
    \/ HandleSuggestionsReady
    \/ HandleSuggestionsError
    \/ HandleShipProgress
    \/ HandleShipComplete
    \/ HandleShipError
    \/ ResetEnter
    \/ KeyEnterShip
    \/ KeyEsc

SpecBackground == InitBackground /\ [][NextBackground]_vars

----------------------------------------------------------------------------
(* Summary generation and the cache *)

CallsOf(t) == { sumTasks[t].calls[i] : i \in 1..Len(sumTasks[t].calls) }

\* C15: a file whose stored fingerprint equals its current one when a summary
\* task is set up does not need regeneration, is in no tier of the task and in
\* no batch the task submits to generate_summaries_for_files; until a reset
\* clears the summaries, the interface holds its cached summary.
C15_ValidNotRegenerated ==
    \A t \in SummaryTaskIds :
        /\ sumTasks[t].files \cap sumTasks[t].valid = {}
        /\ \A b \in CallsOf(t) : Range(b.files) \cap sumTasks[t].valid = {}
        /\ resets = 0 => sumTasks[t].valid \subseteq llm_summaries

\* The start-up task, set up while file 1 held a valid summary and file 2 a
\* stale one, has submitted a batch with file 2.
C15_Witness ==
    \E t \in SummaryTaskIds :
        /\ sumTasks[t].origin = "startup"
        /\ sumTasks[t].valid = {1}
        /\ \E b \in CallsOf(t) : 2 \in Range(b.files)

TierRank(tier) == CASE tier = "high" -> 0 [] tier = "medium" -> 1 [] tier = "low" -> 2

\* Every call of the task was answered with summaries: each was followed by a
\* progress message, and SummariesReady was sent.
AllBatchesSucceeded(t) ==
    /\ sumTasks[t].pc = "done"
    /\ sumTasks[t].sent = Len(sumTasks[t].calls) + 1

ProgressSent ==
    { chan[i] : i \in { j \in 1..Len(chan) :
                          /\ chan[j].type = "SummaryProgress"
                          /\ \/ resets = 0
                             \/ sumTasks[chan[j].task].origin = "reset" } }

\* C17: the result of a batch whose progress event was sent is in durable
\* storage: the cache file holds a summary of the current content of every
\* file of the batch, so that a crash loses at most the batch in flight.
C17_ProgressImpliesPersisted ==
    \A m \in ProgressSent : \A f \in m.summaries : ~ NeedsRegeneration(cacheFile, f)

\* A summary task is in flight until it has sent SummariesReady.
SummariesInFlight(ts) == \E t \in 1..Len(ts) : ts[t].pc # "done"

\* C18: suggestion generation never begins while a summary task is still in
\* flight: no step spawns a suggestion task while one is.
C18_SuggestionsAfterSummaries ==
    [][ genTasks' > genTasks => ~ SummariesInFlight(sumTasks') ]_vars

----------------------------------------------------------------------------
(* The order of the messages of one task *)

\* C19: run_loop handles the messages of one task in the order the task sent
\* them: the k-th message handled of a task is the k-th it sent, so every
\* SummaryProgress is handled before the SummariesReady of its task and every
\* ShipProgress before the ShipComplete or ShipError of its task.
C19_HandledInSendOrder == \A h \in handled : h.pos = h.seq

\* The SummariesReady of a summary task was handled after two progress
\* messages of it, and the ShipComplete of a ship task after its three.
C19_Witness ==
    /\ \E h \in handled : h.type = "SummariesReady" /\ h.pos = 3
    /\ \E h \in handled : h.type = "ShipComplete" /\ h.pos = 4


----------------------------------------------------------------------------
(* main.rs run_loop: the Review step of the workflow *)

\* The content fix_review_findings returns
RefixedContent == 50

\* App::review_passed: the review is over and no finding remains
ReviewPassed == ~reviewing /\ ~review_state.fixing /\ review_state.findings = {}

\* App::start_ship
StartShip == workflow_step' = "Ship" /\ ship_state' = "Confirm"

ReviewKeyFrame ==
    UNCHANGED <<suggestions, pending_changes, verify_state, reviewing, overlay, loading,
                changed, disk, staged, tasks, genTasks, verifyTasks, chan, nextId,
                resets, ever, cacheFile, llm_summaries, needs_summary_generation,
                summary_progress, pending_suggestions_on_init, sumTasks, shipTasks,
                ship_step, handled, rvars>>

\* Enter in the Review step (main.rs 2394-2399)
KeyEnterReview ==
    /\ NormalMode
    /\ workflow_step = "Review"
    /\ ReviewPassed
    /\ StartShip
    /\ UNCHANGED wvars
    /\ ReviewKeyFrame

\* 's' in the Review step (main.rs 2504-2510): skip to Ship
KeySkipToShip ==
    /\ NormalMode
    /\ workflow_step = "Review"
    /\ ~reviewing
    /\ ~review_state.fixing
    /\ StartShip
    /\ UNCHANGED wvars
    /\ ReviewKeyFrame

MaxIterations == 3

\* Space in the Review step (main.rs 2201-2207): App::review_toggle_finding,
\* the finding under the cursor is selected or deselected.
KeyToggleFinding ==
    /\ NormalMode
    /\ workflow_step = "Review"
    /\ ~reviewing
    /\ ~review_state.fixing
    /\ \E f \in review_state.findings :
          review_state' = [review_state EXCEPT
                              !.selected = IF f \in @ THEN @ \ {f} ELSE @ \cup {f}]
    /\ UNCHANGED <<workflow_step, ship_state, reviewFixTasks, review_call>>
    /\ ReviewKeyFrame

\* 'f' in the Review step (main.rs 2209-2251): the selected findings are
\* handed to a fix_review_findings task.
KeyFixFindings ==
    /\ NormalMode
    /\ workflow_step = "Review"
    /\ ~reviewing
    /\ ~review_state.fixing
    /\ review_state.selected # {}
    /\ review_state.review_iteration < MaxIterations
    /\ IsSome(review_state.file_path)
    /\ review_state' = [review_state EXCEPT !.fixing = TRUE]
    /\ reviewFixTasks' = reviewFixTasks + 1
    /\ UNCHANGED <<workflow_step, ship_state, review_call>>
    /\ ReviewKeyFrame

\* The fix_review_findings task (main.rs 2230-2249): one terminal message
ReviewFixTaskDone ==
    /\ reviewFixTasks > 0
    /\ reviewFixTasks' = reviewFixTasks - 1
    /\ \/ Send([type |-> "VerificationFixComplete", new_content |-> RefixedContent])
       \/ Send(Msg("Error"))
    /\ UNCHANGED <<suggestions, pending_changes, workflow_step, verify_state, reviewing,
                   overlay, loading, changed, disk, staged, tasks, genTasks, verifyTasks,
                   nextId, resets, ever, review_state, review_call>>
    /\ StoreFrame

\* Variant of NextIteration: the iteration of the review is passed on as it is.
SameIteration(rs) == rs.review_iteration

\* "let iteration = app.review_state.review_iteration + 1" (main.rs 890)
NextIteration(rs) == rs.review_iteration + 1

\* App::review_fix_complete: the content under review is replaced, the
\* titles of the findings that were fixed are remembered and the next
\* iteration begins.
ReviewFixComplete(rs, new_content) ==
    [rs EXCEPT !.new_content = new_content,
               !.fixing = FALSE,
               !.fixed_titles = @ \cup rs.selected,
               !.selected = {},
               !.review_iteration = @ + 1]

\* BackgroundMessage::VerificationFixComplete (main.rs 874-936): the content
\* under review is replaced and a verification pass is dispatched again.
HandleVerificationFixComplete ==
    /\ Receiving("VerificationFixComplete")
    /\ chan' = Tail(chan)
    /\ IF workflow_step = "Review"
       THEN /\ review_state' = ReviewFixComplete(review_state, Head(chan).new_content)
            /\ IF IsSome(review_state.file_path)
               THEN /\ reviewing' = TRUE
                    /\ loading' = "ReviewingChanges"
                    /\ verifyTasks' = verifyTasks + 1
                    /\ review_call' = Some([iteration |-> NextIteration(review_state),
                                            fixed_titles |-> review_state.fixed_titles])
               ELSE UNCHANGED <<reviewing, loading, verifyTasks, review_call>>
            /\ UNCHANGED overlay
       ELSE /\ IF overlay.kind = "VerificationReview"
               THEN /\ overlay' = [overlay EXCEPT !.reviewing = TRUE]
                    /\ loading' = "ReviewingChanges"
                    /\ verifyTasks' = verifyTasks + 1
               ELSE UNCHANGED <<overlay, loading, verifyTasks>>
            /\ UNCHANGED <<reviewing, review_state, review_call>>
    /\ UNCHANGED <<suggestions, pending_changes, workflow_step, verify_state, changed,
                   disk, staged, tasks, genTasks, nextId, resets, ever, reviewFixTasks>>
    /\ CostStoreFrame

----------------------------------------------------------------------------
(* main.rs run_loop: the ship dialog *)

MaxShips == 2

\* App::is_ready_to_ship: there is a pending change to ship
IsReadyToShip == pending_changes # <<>>

DialogFrame ==
    UNCHANGED <<suggestions, workflow_step, verify_state, reviewing, loading, changed,
                disk, staged, tasks, genTasks, verifyTasks, chan, nextId, resets, ever,
                cacheFile, llm_summaries, needs_summary_generation, summary_progress,
                pending_suggestions_on_init, sumTasks, ship_state, ship_step, handled,
                rvars, wvars>>

\* 's' outside the Review step (main.rs 2511-2519): App::show_ship_dialog
KeyShipDialog ==
    /\ NormalMode
    /\ workflow_step # "Review"
    /\ IsReadyToShip
    /\ overlay' = [kind |-> "ShipDialog", step |-> "Confirm"]
    /\ UNCHANGED <<pending_changes, shipTasks>>
    /\ DialogFrame

\* 'y' in the ship dialog at Confirm (main.rs 1470-1534): the ship task of
\* the dialog is spawned.
ShipDialogConfirm ==
    /\ overlay.kind = "ShipDialog"
    /\ overlay.step = "Confirm"
    /\ Len(shipTasks) < MaxShips
    /\ overlay' = [overlay EXCEPT !.step = "Committing"]
    /\ shipTasks' = Append(shipTasks, NewShipTask("dialog"))
    /\ UNCHANGED pending_changes
    /\ DialogFrame

\* Esc in the ship dialog (main.rs 1463-1468), allowed at Confirm and at
\* Done, and Enter at Done (main.rs 1535-1542), which clears the pending
\* changes.
ShipDialogClose ==
    /\ overlay.kind = "ShipDialog"
    /\ overlay.step \in {"Confirm", "Done"}
    /\ overlay' = [kind |-> "None"]
    /\ \/ UNCHANGED pending_changes
       \/ overlay.step = "Done" /\ pending_changes' = <<>>
    /\ UNCHANGED shipTasks
    /\ DialogFrame

\* A session with two suggestions in the store and nothing in flight
InitFresh ==
    /\ suggestions = <<NewSuggestion(1), NewSuggestion(2)>>
    /\ pending_changes = <<>>
    /\ workflow_step = "Suggestions"
    /\ verify_state = NoVerify
    /\ reviewing = FALSE
    /\ overlay = [kind |-> "None"]
    /\ loading = "None"
    /\ changed = {}
    /\ disk = [p \in DiskPaths |-> IF p \in Files THEN Some(OrigContent(p)) ELSE None]
    /\ staged = {}
    /\ tasks = <<>>
    /\ genTasks = 0
    /\ verifyTasks = 0
    /\ chan = <<>>
    /\ nextId = 3
    /\ resets = 0
    /\ ever = {1, 2}
    /\ IdleWorkflow

\* The same session later: suggestion 1 was applied, its review passed and
\* the workflow is in the Ship step at Confirm. The tasks of suggestion 1
\* have ended; they count as one in the list of tasks.
InitShipAgain ==
    /\ suggestions = <<[NewSuggestion(1) EXCEPT !.applied = TRUE], NewSuggestion(2)>>
    /\ pending_changes = <<[suggestion_id |-> 1, file_path |-> NewSuggestion(1).file,
                            backup_path |-> BackupPath(NewSuggestion(1).file),
                            pre |-> Some(OrigContent(NewSuggestion(1).file))]>>
    /\ workflow_step = "Ship"
    /\ verify_state = [suggestion_id |-> Some(1), file_path |-> Some(NewSuggestion(1).file),
                       preview |-> TRUE]
    /\ reviewing = FALSE
    /\ overlay = [kind |-> "None"]
    /\ loading = "None"
    /\ changed = {}
    /\ disk = [p \in DiskPaths |->
                 IF p = NewSuggestion(1).file THEN Some(RefixedContent)
                 ELSE IF p \in Files THEN Some(OrigContent(p))
                 ELSE IF p = BackupPath(NewSuggestion(1).file)
                      THEN Some(OrigContent(NewSuggestion(1).file))
                 ELSE None]
    /\ staged = {NewSuggestion(1).file}
    /\ tasks = <<Finished>>
    /\ genTasks = 0
    /\ verifyTasks = 0
    /\ chan = <<>>
    /\ nextId = 3
    /\ resets = 0
    /\ ever = {1, 2}
    /\ review_state = [file_path |-> Some(NewSuggestion(1).file),
                       original_content |-> OrigContent(NewSuggestion(1).file),
                       new_content |-> RefixedContent, findings |-> {}, selected |-> {},
                       fixing |-> FALSE, review_iteration |-> 1, fixed_titles |-> {}]
    /\ reviewFixTasks = 0
    /\ review_call = Some(FirstCall)

InitWorkflow ==
    /\ Unlimited
    /\ InitFresh \/ InitShipAgain
    /\ IdleRefactor
    /\ IdleBackground

NextWorkflow ==
    \/ \E t \in TaskIds : PreviewTaskDone(t)
    \/ \E t \in TaskIds : FixGenerate(t)
    \/ \E t \in TaskIds : FixBackup(t)
    \/ \E t \in TaskIds : FixWrite(t)
    \/ \E t \in TaskIds : FixFinish(t)
    \/ \E t \in TaskIds : FixRestore(t)
    \/ \E t \in TaskIds : FixRemoveBackup(t)
    \/ VerifyTaskDone
    \/ ReviewFixTaskDone
    \/ \E t \in ShipTaskIds : ShipStart(t)
    \/ \E t \in ShipTaskIds : ShipCommit(t)
    \/ \E t \in ShipTaskIds : ShipPush(t)
    \/ \E t \in ShipTaskIds : ShipCreatePr(t)
    \/ HandlePreviewReady
    \/ HandlePreviewError
    \/ HandleDirectFixApplied
    \/ HandleDirectFixError
    \/ HandleVerificationComplete
    \/ HandleVerificationFixComplete
    \/ HandleError
    \/ HandleShipProgress
    \/ HandleShipComplete
    \/ HandleShipError
    \/ KeyEnterSuggestions
    \/ KeyEnterVerify
    \/ KeyEnterReview
    \/ KeySkipToShip
    \/ KeyToggleFinding
    \/ KeyFixFindings
    \/ KeyEnterShip
    \/ KeyEsc
    \/ KeyUndo
    \/ OverlayApply
    \/ OverlayDismiss
    \/ OverlayClose

SpecWorkflow == InitWorkflow /\ [][NextWorkflow]_vars


----------------------------------------------------------------------------
(* The Verify step *)

\* run_loop takes the message at the head of the channel
Handling(type) == Receiving(type) /\ chan' = Tail(chan)

\* The fix task KeyEnterVerify dispatches for the suggestion under verification
FixDispatched ==
    /\ Len(tasks') = Len(tasks) + 1
    /\ tasks'[Len(tasks')].kind = "fix"
    /\ Some(tasks'[Len(tasks')].sid) = verify_state.suggestion_id

\* The Review step entered for the fix a DirectFixApplied message reports:
\* the content before the fix, the content the fix wrote, one verification
\* pass dispatched.
ReviewOf(m) ==
    /\ workflow_step' = "Review"
    /\ reviewing'
    /\ review_state'.file_path = Some(m.file)
    /\ Some(review_state'.original_content) = m.pre
    /\ Some(review_state'.new_content) = disk[m.file]
    /\ review_state'.new_content # review_state'.original_content
    /\ verifyTasks' = verifyTasks + 1

BackToSuggestions == workflow_step' = "Suggestions" /\ verify_state' = NoVerify

\* C21: in the Verify step, confirming dispatches the fix task of the
\* suggestion under verification; handling DirectFixApplied enters Review with
\* the content before and after the fix and dispatches exactly one
\* verification pass; handling DirectFixError or PreviewError returns to
\* Suggestions with the verify state reset; handling any other message leaves
\* the workflow in Verify.
C21_VerifyTransitions ==
    [][ workflow_step = "Verify" =>
          /\ (loading' = "GeneratingFix" /\ loading # "GeneratingFix" => FixDispatched)
          /\ (Handling("DirectFixApplied") => ReviewOf(Head(chan)))
          /\ (Handling("DirectFixError") \/ Handling("PreviewError") => BackToSuggestions)
          /\ (chan # <<>> /\ chan' = Tail(chan)
                /\ Head(chan).type \notin {"DirectFixApplied", "DirectFixError", "PreviewError"}
                => workflow_step' = "Verify") ]_vars

\* The transitions of C21 without the content of the review
C21_VerifyTransitionsOnly ==
    [][ workflow_step = "Verify" =>
          /\ (loading' = "GeneratingFix" /\ loading # "GeneratingFix" => FixDispatched)
          /\ (Handling("DirectFixApplied") =>
                workflow_step' = "Review" /\ verifyTasks' = verifyTasks + 1)
          /\ (Handling("DirectFixError") \/ Handling("PreviewError") => BackToSuggestions)
          /\ (chan # <<>> /\ chan' = Tail(chan)
                /\ Head(chan).type \notin {"DirectFixApplied", "DirectFixError", "PreviewError"}
                => workflow_step' = "Verify") ]_vars


----------------------------------------------------------------------------
(* The Review step *)

\* C22: the workflow moves from Review to Ship only when no finding remains
\* and neither a review nor a fix is in progress.
C22_ShipOnlyAfterPassedReview ==
    [][ workflow_step = "Review" /\ workflow_step' = "Ship" =>
          /\ review_state.findings = {}
          /\ ~reviewing
          /\ ~review_state.fixing ]_vars


----------------------------------------------------------------------------
(* The Ship step *)

ShipSuccessor(step) ==
    CASE step = "Confirm" -> "Committing"
      [] step = "Committing" -> "Pushing"
      [] step = "Pushing" -> "CreatingPR"
      [] step = "CreatingPR" -> "Done"
      [] OTHER -> "None"

\* The version-control step that must have succeeded before the sub-state
\* is entered
StepBefore(step) ==
    CASE step = "Pushing" -> {"commit"}
      [] step = "CreatingPR" -> {"commit", "push"}
      [] step = "Done" -> {"commit", "push", "pr"}
      [] OTHER -> {}

\* C23: the Ship sub-state advances one step at a time along Confirm,
\* Committing, Pushing, CreatingPR, Done, each step entered only after the
\* steps before it succeeded (a new visit of the Ship step starts at Confirm
\* again); a ship task whose step failed runs no later step, the ShipError it
\* sent leaves the sub-state where it is, and no step that succeeded is
\* undone.
C23_ShipAdvancesInOrder ==
    [][ /\ (ship_state' # ship_state /\ ship_state' # "Confirm" =>
              /\ ship_state' = ShipSuccessor(ship_state)
              /\ \/ StepBefore(ship_state') = {}
                 \/ \E t \in ShipTaskIds : StepBefore(ship_state') \subseteq shipTasks[t].done)
        /\ (Handling("ShipError") => ship_state' = ship_state)
        /\ \A t \in ShipTaskIds :
              /\ shipTasks[t].pc = "done" => shipTasks'[t] = shipTasks[t]
              /\ shipTasks[t].done \subseteq shipTasks'[t].done ]_vars


----------------------------------------------------------------------------
(* Shipping from the workflow and from the ship dialog *)

InitShip ==
    /\ Unlimited
    /\ InitShipAgain
    /\ IdleRefactor
    /\ IdleBackground

NextShip ==
    \/ \E t \in ShipTaskIds : ShipStart(t)
    \/ \E t \in ShipTaskIds : ShipStage(t)
    \/ \E t \in ShipTaskIds : ShipCommit(t)
    \/ \E t \in ShipTaskIds : ShipPush(t)
    \/ \E t \in ShipTaskIds : ShipCreatePr(t)
    \/ HandleShipProgress
    \/ HandleShipComplete
    \/ HandleShipError
    \/ KeyEnterShip
    \/ KeyShipDialog
    \/ ShipDialogConfirm
    \/ ShipDialogClose
    \/ KeyEsc
    \/ KeyUndo

SpecShip == InitShip /\ [][NextShip]_vars

\* C24: when run_loop surfaces a ShipError the user learns the stage at
\* which the ship failed, from the text of the error or from the sub-state
\* the Ship step shows, whichever path the ship was started on; and after a
\* failed pull-request creation the text tells the user to create the pull
\* request manually.
C24_ShipErrorNamesStage ==
    [][ Handling("ShipError") =>
          /\ \/ Head(chan).stage = Some(Head(chan).step)
             \/ workflow_step = "Ship" /\ ship_state = Head(chan).step
          /\ (Head(chan).step = "CreatingPR" => Head(chan).manual) ]_vars

\* The ship dialog's errors name their stage
C24_DialogErrorNamesStage ==
    [][ Handling("ShipError") /\ shipTasks[Head(chan).task].path = "dialog" =>
          /\ Head(chan).stage = Some(Head(chan).step)
          /\ (Head(chan).step = "CreatingPR" => Head(chan).manual) ]_vars


----------------------------------------------------------------------------
(* Backward navigation *)

\* A step that leaves the stage for the Suggestions step without a message
\* being handled: the back key, or Enter at the end of the Ship step
LeavesStage ==
    /\ workflow_step \in {"Verify", "Review", "Ship"}
    /\ workflow_step' = "Suggestions"
    /\ chan' = chan

\* The step copies a backup back over its file
RestoresFromBackup ==
    \E f \in Files : /\ disk'[f] # disk[f]
                     /\ IsSome(disk[BackupPath(f)])
                     /\ disk'[f] = disk[BackupPath(f)]

----------------------------------------------------------------------------
(* suggest/llm.rs: call_llm *)

MaxResponses == 3

\* What the provider answers to one request: a transport failure, HTTP 429,
\* HTTP 500, a body without choices, a body with a choice
Responses == {"transport", "429", "500", "nochoice", "ok"}

\* call_llm (suggest/llm.rs 80-124); script holds the answers the provider
\* would give to the first, second, ... request. requests is history: the
\* number of requests sent.
CallLlm(key, script) ==
    IF ~key THEN [ok |-> FALSE, error |-> "NoApiKey", requests |-> 0]
    ELSE CASE script[1] = "transport" ->
                [ok |-> FALSE, error |-> "transport", requests |-> 1]
           [] script[1] \in {"429", "500"} ->
                [ok |-> FALSE, error |-> script[1], requests |-> 1]
           [] script[1] = "nochoice" ->
                [ok |-> FALSE, error |-> "nochoice", requests |-> 1]
           [] script[1] = "ok" ->
                [ok |-> TRUE, error |-> "None", requests |-> 1]

InitLlm ==
    /\ Unlimited
    /\ \E key \in BOOLEAN, n \in 1..MaxResponses :
          \E script \in [1..n -> Responses] :
             call = [fn |-> "call_llm", key |-> key, script |-> script]
    /\ ret = None
    /\ fs = <<>>
    /\ fs0 = <<>>
    /\ plan = <<>>
    /\ rpc = "idle"
    /\ idx = 0
    /\ backups = <<>>
    /\ executed = <<>>
    /\ opError = None
    /\ result = None
    /\ restoreFailed = {}
    /\ IdleApp
    /\ IdleBackground
    /\ IdleWorkflow

RunCallLlm ==
    /\ call.fn = "call_llm"
    /\ ret = None
    /\ ret' = Some(CallLlm(call.key, call.script))
    /\ UNCHANGED <<call, ai_budget, fs, fs0, plan, rpc, idx, backups, executed, opError,
                   result,
                   restoreFailed, avars, svars, wvars>>

NextLlm == RunCallLlm

SpecLlm == InitLlm /\ [][NextLlm]_vars

\* C26: with an API key, a call whose first two requests are answered with
\* HTTP 429 and whose third is answered with success returns Ok after exactly
\* 2 retries, and a call whose first answer is any other failure returns the
\* error after one request.
C26_RateLimitRetried ==
    IsSome(ret) /\ call.fn = "call_llm" /\ call.key =>
        /\ (call.script = <<"429", "429", "ok">> =>
              Unwrap(ret).ok /\ Unwrap(ret).requests = 3)
        /\ (call.script[1] \in {"transport", "500", "nochoice"} =>
              ~Unwrap(ret).ok /\ Unwrap(ret).requests = 1)


----------------------------------------------------------------------------
(* Failed summary batches *)

\* The batches of summary task t whose generation call failed: every
\* successful call was followed by one SummaryProgress.
FailedBatches(t) == Len(sumTasks[t].calls) - sumTasks[t].sent

\* C27: a summary task of which a batch failed does not end its run with the
\* notification of normal completion: the last message it sends is an error
\* notification.
C27_FailedBatchSurfaced ==
    [][ \A t \in SummaryTaskIds :
           sumTasks[t].pc # "done" /\ sumTasks'[t].pc = "done" /\ FailedBatches(t) > 0
              => chan'[Len(chan')].type = "SummariesError" ]_vars


----------------------------------------------------------------------------
(* Who writes the cache *)

\* The step is one of summary task t
TaskStepped(t) == sumTasks'[t] # sumTasks[t]

\* C28: the summaries cache is written by the control loop alone: no step of
\* a summary task changes the cache file, and no step takes a valid entry out
\* of it except the reset the user asked for.
C28_CacheWrittenByLoopOnly ==
    [][ /\ (cacheFile' # cacheFile => \A t \in SummaryTaskIds : ~ TaskStepped(t))
        /\ (\E f \in SummaryFiles :
               ~ NeedsRegeneration(cacheFile, f) /\ NeedsRegeneration(cacheFile', f))
              => resets' = resets + 1 ]_vars

\* The second half of C28 alone: a valid entry leaves the cache file only by
\* a reset.
C28_NoEntryOverwritten ==
    [][ (\E f \in SummaryFiles :
            ~ NeedsRegeneration(cacheFile, f) /\ NeedsRegeneration(cacheFile', f))
           => resets' = resets + 1 ]_vars


----------------------------------------------------------------------------
(* Who touches the files and the repository *)

\* The step is one of a background task: a task moved on or ended
BackgroundStep ==
    \/ \E t \in TaskIds : tasks'[t] # tasks[t]
    \/ \E t \in SummaryTaskIds : sumTasks'[t] # sumTasks[t]
    \/ \E t \in ShipTaskIds : shipTasks'[t] # shipTasks[t]
    \/ genTasks' < genTasks
    \/ verifyTasks' < verifyTasks
    \/ reviewFixTasks' < reviewFixTasks

\* C29: the control loop does no file or version-control operation itself:
\* a step in which the working tree, the staged paths or the cache file are
\* written, or the version-control status is read into the context, is a step
\* of a background task.
C29_LoopDoesNoIo ==
    [][ disk' # disk \/ staged' # staged \/ cacheFile' # cacheFile \/ changed' # changed
          => BackgroundStep ]_vars


----------------------------------------------------------------------------
(* refactor.rs: parse_multi_file_diff *)

MaxLines == 4

\* A line is the sequence of its words. The lines of the inputs: a header of
\* each kind, a RENAME header without " -> ", a CREATE header that holds the
\* marker twice, a line of text and a hunk line.
DiffLines ==
    { <<"===", "CREATE", "a", "===">>,
      <<"===", "MODIFY", "b", "===">>,
      <<"===", "DELETE", "a", "===">>,
      <<"===", "RENAME", "a", "->", "b", "===">>,
      <<"===", "RENAME", "a", "===">>,
      <<"===", "CREATE", "===", "CREATE", "b", "===">>,
      <<"x">>,
      <<"@@">> }

\* line.starts_with("=== KIND ") && line.ends_with(" ===")
IsHeader(line, kind) ==
    /\ Len(line) >= 3
    /\ line[1] = "===" /\ line[2] = kind
    /\ line[Len(line)] = "==="

\* str::trim_start_matches("=== KIND "): the prefix is removed as often as
\* it is there
RECURSIVE TrimStartMatches(_, _)
TrimStartMatches(line, kind) ==
    IF Len(line) >= 3 /\ line[1] = "===" /\ line[2] = kind
    THEN TrimStartMatches(SubSeq(line, 3, Len(line)), kind)
    ELSE line

\* str::trim_end_matches(" ===")
RECURSIVE TrimEndMatches(_)
TrimEndMatches(line) ==
    IF Len(line) >= 2 /\ line[Len(line)] = "==="
    THEN TrimEndMatches(SubSeq(line, 1, Len(line) - 1))
    ELSE line

HeaderPath(line, kind) == TrimEndMatches(TrimStartMatches(line, kind))

\* str::split_once(" -> "): the first " -> " with text on both sides
SplitOnce(part) ==
    LET at == { i \in 2..(Len(part) - 1) : part[i] = "->" } IN
       IF at = {} THEN None
       ELSE LET i == CHOOSE j \in at : \A k \in at : j <= k
            IN  Some([from |-> SubSeq(part, 1, i - 1),
                      to |-> SubSeq(part, i + 1, Len(part))])

\* crate::diff::parse_unified_diff: a text without a hunk is no diff
ParseUnifiedDiff(lines) ==
    IF \E i \in 1..Len(lines) : lines[i] = <<"@@">>
    THEN [ok |-> TRUE, diff |-> lines]
    ELSE [ok |-> FALSE]

\* finalize_op (refactor.rs 209-221)
FinalizeOp(op, lines) ==
    IF op.kind = "Create"
    THEN [ok |-> TRUE, op |-> [kind |-> "Create", path |-> op.path, content |-> lines]]
    ELSE LET d == ParseUnifiedDiff(lines) IN
            IF d.ok
            THEN [ok |-> TRUE, op |-> [kind |-> "Modify", path |-> op.path, diff |-> d.diff]]
            ELSE [ok |-> FALSE]

\* Variant of PushOp: the operation is put in front of the others.
PushOpFront(operations, op) == <<op>> \o operations

\* plan.operations.push(op)
PushOp(operations, op) == Append(operations, op)

\* The state of the loop over the lines (refactor.rs 132-134)
ParseStart ==
    [operations |-> <<>>, current_op |-> None, content_lines |-> <<>>, failed |-> FALSE]

\* "if let Some(op) = current_op.take() { push(finalize_op(..)?); clear }"
TakeCurrent(st) ==
    IF st.current_op = None THEN st
    ELSE LET f == FinalizeOp(Unwrap(st.current_op), st.content_lines) IN
            IF f.ok
            THEN [st EXCEPT !.operations = PushOp(@, f.op), !.current_op = None,
                            !.content_lines = <<>>]
            ELSE [st EXCEPT !.failed = TRUE]

\* One turn of the loop over the lines (refactor.rs 136-184)
ParseLine(st, line) ==
    IF st.failed THEN st
    ELSE IF IsHeader(line, "CREATE")
    THEN LET s == TakeCurrent(st) IN
            IF s.failed THEN s
            ELSE [s EXCEPT !.current_op =
                      Some([kind |-> "Create", path |-> HeaderPath(line, "CREATE")])]
    ELSE IF IsHeader(line, "MODIFY")
    THEN LET s == TakeCurrent(st) IN
            IF s.failed THEN s
            ELSE [s EXCEPT !.current_op =
                      Some([kind |-> "Modify", path |-> HeaderPath(line, "MODIFY")])]
    ELSE IF IsHeader(line, "DELETE")
    THEN LET s == TakeCurrent(st) IN
            IF s.failed THEN s
            ELSE [s EXCEPT !.operations =
                      PushOp(@, [kind |-> "Delete", path |-> HeaderPath(line, "DELETE")]),
                           !.current_op = None]
    ELSE IF IsHeader(line, "RENAME")
    THEN LET s == TakeCurrent(st)
             r == SplitOnce(HeaderPath(line, "RENAME"))
         IN  IF s.failed THEN s
             ELSE IF IsSome(r)
             THEN [s EXCEPT !.operations =
                       PushOp(@, [kind |-> "Rename", from |-> Unwrap(r).from,
                                  to |-> Unwrap(r).to]),
                            !.current_op = None]
             ELSE [s EXCEPT !.current_op = None]
    ELSE IF st.current_op # None
    THEN [st EXCEPT !.content_lines = Append(@, line)]
    ELSE st

RECURSIVE ParseLines(_, _)
ParseLines(st, lines) ==
    IF lines = <<>> THEN st ELSE ParseLines(ParseLine(st, Head(lines)), Tail(lines))

CountKind(operations, kind) ==
    Cardinality({ i \in 1..Len(operations) : operations[i].kind = kind })

\* RefactorPlan::stats (refactor.rs 24-36)
Stats(operations) ==
    [creates |-> CountKind(operations, "Create"),
     modifies |-> CountKind(operations, "Modify"),
     deletes |-> CountKind(operations, "Delete"),
     renames |-> CountKind(operations, "Rename")]

\* parse_multi_file_diff (refactor.rs 131-200)
ParseMultiFileDiff(input) ==
    LET s == TakeCurrent(ParseLines(ParseStart, input)) IN
       IF s.failed THEN [ok |-> FALSE, error |-> "diff"]
       ELSE IF s.operations = <<>> THEN [ok |-> FALSE, error |-> "No operations found"]
       ELSE [ok |-> TRUE, operations |-> s.operations]

InitParse ==
    /\ Unlimited
    /\ \E n \in 0..MaxLines : \E input \in [1..n -> DiffLines] :
          call = [fn |-> "parse_multi_file_diff", input |-> input]
    /\ ret = None
    /\ fs = <<>>
    /\ fs0 = <<>>
    /\ plan = <<>>
    /\ rpc = "idle"
    /\ idx = 0
    /\ backups = <<>>
    /\ executed = <<>>
    /\ opError = None
    /\ result = None
    /\ restoreFailed = {}
    /\ IdleApp
    /\ IdleBackground
    /\ IdleWorkflow

\* The call, and plan.stats() of the plan it returned
RunParse ==
    /\ call.fn = "parse_multi_file_diff"
    /\ ret = None
    /\ LET r == ParseMultiFileDiff(call.input) IN
          ret' = Some(IF r.ok THEN r @@ [stats |-> Stats(r.operations)] ELSE r)
    /\ UNCHANGED <<call, ai_budget, fs, fs0, plan, rpc, idx, backups, executed, opError,
                   result,
                   restoreFailed, avars, svars, wvars>>

NextParse == RunParse

SpecParse == InitParse /\ [][NextParse]_vars

Kinds == {"CREATE", "MODIFY", "DELETE", "RENAME"}

\* The words between "=== KIND" and "===" of a well-formed header: at least
\* one, none of them the marker, and for RENAME "from -> to"
Between(line) == SubSeq(line, 3, Len(line) - 1)

WellFormed(line) ==
    /\ Len(line) >= 4
    /\ line[1] = "===" /\ line[2] \in Kinds /\ line[Len(line)] = "==="
    /\ \A i \in 3..(Len(line) - 1) : line[i] # "==="
    /\ line[2] = "RENAME" =>
          /\ Cardinality({ i \in 3..(Len(line) - 1) : line[i] = "->" }) = 1
          /\ line[3] # "->" /\ line[Len(line) - 1] # "->"

\* The kind and the path, or the from/to pair, a well-formed header names
HeadOf(line) ==
    IF line[2] = "RENAME"
    THEN LET i == CHOOSE j \in 3..(Len(line) - 1) : line[j] = "->"
         IN  [kind |-> "Rename", from |-> SubSeq(line, 3, i - 1),
              to |-> SubSeq(line, i + 1, Len(line) - 1)]
    ELSE [kind |-> CASE line[2] = "CREATE" -> "Create"
                     [] line[2] = "MODIFY" -> "Modify"
                     [] line[2] = "DELETE" -> "Delete",
          path |-> Between(line)]

RECURSIVE ExpectedHeads(_)
ExpectedHeads(input) ==
    IF input = <<>> THEN <<>>
    ELSE IF WellFormed(Head(input))
         THEN <<HeadOf(Head(input))>> \o ExpectedHeads(Tail(input))
         ELSE ExpectedHeads(Tail(input))

\* What an operation says of its header
OpHead(op) ==
    IF op.kind = "Rename" THEN [kind |-> "Rename", from |-> op.from, to |-> op.to]
    ELSE [kind |-> op.kind, path |-> op.path]

\* No line of the input holds the marker of a header inside its path
PlainHeaders(input) ==
    \A i \in 1..Len(input) :
       (\E k \in Kinds : IsHeader(input[i], k)) =>
          \A j \in 3..(Len(input[i]) - 1) : input[i][j] # "==="

\* C30: a plan returned by parse_multi_file_diff holds, in the order of the
\* input, one operation for each well-formed header, of the header's kind and
\* with the header's path or from/to pair; the counts of plan.stats() add up
\* to the number of operations; and an input without a well-formed header
\* yields an error, never an empty plan.
C30_ParsedInHeaderOrder ==
    IsSome(ret) /\ call.fn = "parse_multi_file_diff" /\ PlainHeaders(call.input) =>
       LET r == Unwrap(ret) IN
          /\ r.ok =>
                /\ r.operations # <<>>
                /\ [i \in 1..Len(r.operations) |-> OpHead(r.operations[i])]
                      = ExpectedHeads(call.input)
                /\ r.stats.creates + r.stats.modifies + r.stats.deletes + r.stats.renames
                      = Len(r.operations)
          /\ ExpectedHeads(call.input) = <<>> => ~r.ok

\* A plan of three operations of three kinds, parsed from headers with
\* content between them
C30_Witness ==
    /\ IsSome(ret)
    /\ call.fn = "parse_multi_file_diff"
    /\ PlainHeaders(call.input)
    /\ Unwrap(ret).ok
    /\ Len(Unwrap(ret).operations) = 3
    /\ Len(call.input) = 4
    /\ Unwrap(ret).stats.creates = 1
    /\ Unwrap(ret).stats.deletes = 1
    /\ Unwrap(ret).stats.renames = 1

----------------------------------------------------------------------------
(* update.rs: is_newer_version *)

\* A string is the sequence of its characters; a number is the sequence of
\* its decimal digits without leading zeros, so that u32::MAX can be written.
DigitOrder == <<"0", "1", "2", "3", "4", "5", "6", "7", "8", "9">>

IsDigit(c) == \E i \in 1..10 : DigitOrder[i] = c

DigitValue(c) == (CHOOSE i \in 1..10 : DigitOrder[i] = c) - 1

\* u32::MAX, 4294967295
U32Max == <<"4", "2", "9", "4", "9", "6", "7", "2", "9", "5">>

RECURSIVE StripZeros(_)
StripZeros(ds) ==
    IF Len(ds) > 1 /\ Head(ds) = "0" THEN StripZeros(Tail(ds)) ELSE ds

\* a < b for two numbers
NumLess(a, b) ==
    \/ Len(a) < Len(b)
    \/ /\ Len(a) = Len(b)
       /\ \E i \in 1..Len(a) :
             /\ DigitValue(a[i]) < DigitValue(b[i])
             /\ \A j \in 1..(i - 1) : a[j] = b[j]

\* str::parse::<u32>().ok(): an optional "+", then one digit at least and
\* digits only, and a value that fits 32 bits
ParseU32(s) ==
    LET body == IF s # <<>> /\ Head(s) = "+" THEN Tail(s) ELSE s IN
       IF body = <<>> \/ \E i \in 1..Len(body) : ~IsDigit(body[i])
       THEN None
       ELSE IF NumLess(U32Max, StripZeros(body)) THEN None
       ELSE Some(StripZeros(body))

\* str::trim_start_matches('v')
RECURSIVE TrimStartV(_)
TrimStartV(s) ==
    IF s # <<>> /\ Head(s) = "v" THEN TrimStartV(Tail(s)) ELSE s

\* str::split(sep).collect(): the empty string gives one empty part
RECURSIVE Split(_, _)
Split(s, sep) ==
    LET at == { i \in 1..Len(s) : s[i] = sep } IN
       IF at = {} THEN <<s>>
       ELSE LET i == CHOOSE j \in at : \A k \in at : j <= k
            IN  <<SubSeq(s, 1, i - 1)>> \o Split(SubSeq(s, i + 1, Len(s)), sep)

\* The closure parse of is_newer_version (update.rs 70-81)
ParseVersion(v) ==
    LET parts == Split(TrimStartV(v), ".") IN
       IF Len(parts) >= 3
       THEN LET major == ParseU32(parts[1])
                minor == ParseU32(parts[2])
                patch == ParseU32(Head(Split(parts[3], "-")))
            IN  IF IsSome(major) /\ IsSome(minor) /\ IsSome(patch)
                THEN Some(<<Unwrap(major), Unwrap(minor), Unwrap(patch)>>)
                ELSE None
       ELSE None

\* Variant of TupleGreater: equal triples count as greater.
TupleGreaterOrEqual(l, c) ==
    \/ l = c
    \/ NumLess(c[1], l[1])
    \/ l[1] = c[1] /\ NumLess(c[2], l[2])
    \/ l[1] = c[1] /\ l[2] = c[2] /\ NumLess(c[3], l[3])

\* (l_major, l_minor, l_patch) > (c_major, c_minor, c_patch)
TupleGreater(l, c) ==
    \/ NumLess(c[1], l[1])
    \/ l[1] = c[1] /\ NumLess(c[2], l[2])
    \/ l[1] = c[1] /\ l[2] = c[2] /\ NumLess(c[3], l[3])

\* is_newer_version (update.rs 69-91)
IsNewerVersion(latest, current) ==
    LET l == ParseVersion(latest)
        c == ParseVersion(current)
    IN  IF IsSome(l) /\ IsSome(c) THEN TupleGreater(Unwrap(l), Unwrap(c)) ELSE FALSE

\* The numbers of the versions tried, in ascending order
NumberOrder == << <<"0">>, <<"1">>, <<"1", "0">>, U32Max >>

Minors == { NumberOrder[i] : i \in 1..3 }

Majors == { NumberOrder[i] : i \in 1..4 }

\* The versions major.minor.patch, with or without "v" and "-b"
Semvers ==
    [kind : {"semver"}, v : BOOLEAN, major : Majors, minor : Minors,
     patch : Minors, pre : BOOLEAN]

\* Strings that are no version ("unparsable"), and strings that are none
\* either but which the function reads as one ("lenient")
OddVersions ==
    {[kind |-> "unparsable", chars |-> <<>>],
     [kind |-> "unparsable", chars |-> <<"i", "n", "v">>],
     [kind |-> "unparsable", chars |-> <<"1", ".", "0">>],
     [kind |-> "unparsable", chars |-> <<"1", ".", "x", ".", "0">>],
     [kind |-> "unparsable", chars |-> <<"1", ".", "0", "-", "b", ".", "0">>],
     [kind |-> "unparsable", chars |-> <<"1", ".", "0", ".", "0", "+", "b">>],
     [kind |-> "unparsable", chars |-> <<"1", ".", "0", ".">>],
     [kind |-> "unparsable",
      chars |-> <<"4", "2", "9", "4", "9", "6", "7", "2", "9", "6", ".", "0", ".", "0">>],
     [kind |-> "lenient", chars |-> <<"v", "v", "1", ".", "0", ".", "0">>],
     [kind |-> "lenient", chars |-> <<"1", ".", "0", ".", "0", ".", "1">>],
     [kind |-> "lenient", chars |-> <<"+", "1", ".", "0", ".", "0">>],
     [kind |-> "lenient", chars |-> <<"0", "1", ".", "0", ".", "0", "0">>]}

VersionForms == Semvers \cup OddVersions

\* The string of a version
Render(x) ==
    IF x.kind = "semver"
    THEN (IF x.v THEN <<"v">> ELSE <<>>) \o x.major \o <<".">> \o x.minor \o <<".">>
            \o x.patch \o (IF x.pre THEN <<"-", "b">> ELSE <<>>)
    ELSE x.chars

InitVersion ==
    /\ Unlimited
    /\ \E l \in VersionForms : \E c \in VersionForms :
          call = [fn |-> "is_newer_version", latest |-> Render(l),
                  current |-> Render(c), forms |-> <<l, c>>]
    /\ ret = None
    /\ fs = <<>>
    /\ fs0 = <<>>
    /\ plan = <<>>
    /\ rpc = "idle"
    /\ idx = 0
    /\ backups = <<>>
    /\ executed = <<>>
    /\ opError = None
    /\ result = None
    /\ restoreFailed = {}
    /\ IdleApp
    /\ IdleBackground
    /\ IdleWorkflow

\* The call, and the call with the arguments exchanged
RunIsNewerVersion ==
    /\ call.fn = "is_newer_version"
    /\ ret = None
    /\ ret' = Some([newer |-> IsNewerVersion(call.latest, call.current),
                    reverse |-> IsNewerVersion(call.current, call.latest)])
    /\ UNCHANGED <<call, ai_budget, fs, fs0, plan, rpc, idx, backups, executed, opError,
                   result,
                   restoreFailed, avars, svars, wvars>>

NextVersion == RunIsNewerVersion

SpecVersion == InitVersion /\ [][NextVersion]_vars

\* The place of a number of a version in the ascending order
Rank(n) == CHOOSE i \in 1..Len(NumberOrder) : NumberOrder[i] = n

\* The triple of latest is lexicographically greater than that of current
Greater(l, c) ==
    \/ Rank(l.major) > Rank(c.major)
    \/ Rank(l.major) = Rank(c.major) /\ Rank(l.minor) > Rank(c.minor)
    \/ /\ Rank(l.major) = Rank(c.major)
       /\ Rank(l.minor) = Rank(c.minor)
       /\ Rank(l.patch) > Rank(c.patch)

\* C31: is_newer_version(latest, current) of two versions major.minor.patch,
\* with or without a leading "v" and a prerelease suffix, is true exactly when
\* the triple of latest is lexicographically greater than that of current
\* (so it is false for equal versions); it is false when an argument is no
\* version; and it is never true in both directions.
C31_NewerIsStrictOrder ==
    IsSome(ret) /\ call.fn = "is_newer_version" =>
       LET l == call.forms[1]
           c == call.forms[2]
           r == Unwrap(ret)
       IN  /\ ~(r.newer /\ r.reverse)
           /\ l.kind = "semver" /\ c.kind = "semver" => (r.newer <=> Greater(l, c))
           /\ l.kind = "unparsable" \/ c.kind = "unparsable" => ~r.newer

\* "v0.10.1-b" is newer than "0.1.10", and not the other way round
C31_Witness ==
    /\ IsSome(ret)
    /\ call.fn = "is_newer_version"
    /\ call.latest = <<"v", "0", ".", "1", "0", ".", "1", "-", "b">>
    /\ call.current = <<"0", ".", "1", ".", "1", "0">>
    /\ Unwrap(ret).newer
    /\ ~Unwrap(ret).reverse

----------------------------------------------------------------------------
(* Claims on rollback *)

\* The step attempts backup entry i: the path has the captured content, or is
\* absent when it did not exist before; or the attempt failed and nothing
\* changed.
AttemptsEntry(i) ==
    \/ fs' = [fs EXCEPT ![backups[i].path] = backups[i].original_content]
    \/ fs' = fs

\* C32: on a failure, rollback starts at the backup entry captured last,
\* visits the entries in reverse order of capture and attempts every one of
\* them, also after the attempt on an entry visited earlier has failed:
\* apply_refactor_plan returns only after entry 1 was attempted.
C32_RollbackAttemptsEveryEntry ==
    [][/\ rpc # "rollback" /\ rpc' = "rollback" => idx' = Len(backups)
       /\ rpc = "rollback" =>
             \/ /\ idx >= 1
                /\ AttemptsEntry(idx)
                /\ idx' = idx - 1
                /\ rpc' = "rollback"
                /\ backups' = backups
             \/ /\ idx = 0
                /\ rpc' = "done"
                /\ fs' = fs]_vars

\* The restoration of the entry visited first failed, and the entry captured
\* first was restored all the same.
C32_Witness ==
    /\ ReturnedErrAfterRollback
    /\ Len(backups) >= 2
    /\ Len(backups) \in restoreFailed
    /\ 1 \notin restoreFailed
    /\ executed[1].ok
    /\ backups[1].path # backups[Len(backups)].path
    /\ plan[1].op = "CREATE"
    /\ fs[backups[1].path] = backups[1].original_content
    /\ fs[backups[1].path] # Some(plan[1].content)

----------------------------------------------------------------------------
(* Claims on the re-fix of findings in the Review step *)

\* C33: in the Review step every completed re-fix (a VerificationFixComplete
\* that is handled) dispatches exactly one verification, whose iteration is
\* the iteration of the review, and of the verification before it, plus one,
\* and whose list of fixed titles holds every title the verification before
\* it was given; a re-fix is dispatched only in Review while no review and no
\* fix is in progress and a finding is selected; and in Review nothing but a
\* handled fix dispatches a verification.
C33_RefixThenReverify ==
    [][/\ Handling("VerificationFixComplete") /\ workflow_step = "Review" =>
             /\ verifyTasks' = verifyTasks + 1
             /\ IsSome(review_call) /\ IsSome(review_call')
             /\ Unwrap(review_call').iteration = review_state.review_iteration + 1
             /\ Unwrap(review_call').iteration = Unwrap(review_call).iteration + 1
             /\ Unwrap(review_call).fixed_titles \subseteq Unwrap(review_call').fixed_titles
       /\ reviewFixTasks' > reviewFixTasks =>
             /\ reviewFixTasks' = reviewFixTasks + 1
             /\ workflow_step = "Review"
             /\ ~reviewing
             /\ ~review_state.fixing
             /\ review_state.selected # {}
       /\ workflow_step = "Review" /\ verifyTasks' > verifyTasks =>
             \/ Handling("VerificationFixComplete")
             \/ Handling("DirectFixApplied")]_vars

\* The second re-fix of a review was handled: the third verification is in
\* flight and is told the title fixed in the first re-fix.
C33_Witness ==
    /\ workflow_step = "Review"
    /\ reviewing
    /\ verifyTasks = 1
    /\ review_state.review_iteration = 3
    /\ IsSome(review_call)
    /\ Unwrap(review_call).iteration = 3
    /\ Unwrap(review_call).fixed_titles = {"finding"}

----------------------------------------------------------------------------
(* Claims on the backup loop of apply_refactor_plan *)

BackupFailed ==
    Returned /\ ~Unwrap(result).ok /\ Unwrap(result).cause.what = "backup"

\* C34: while apply_refactor_plan captures the backups no operation is
\* executed and the repository is as it was; when capturing a backup fails
\* the function returns an error with no operation executed, no rollback
\* started and the repository unchanged.
C34_BackupFailureChangesNothing ==
    /\ rpc = "backup" => executed = <<>> /\ fs = fs0
    /\ BackupFailed =>
          /\ executed = <<>>
          /\ fs = fs0
          /\ opError = None
          /\ restoreFailed = {}

\* The plan creates a.rs and then modifies a file that is not there: the
\* backup of the second operation failed after the first was captured.
C34_Witness ==
    /\ BackupFailed
    /\ Len(plan) = 2
    /\ plan[1].op = "CREATE"
    /\ plan[2].op = "MODIFY"
    /\ ~IsSome(fs0[plan[2].path])
    /\ Len(backups) = 1
    /\ Unwrap(result).cause.path = plan[2].path

----------------------------------------------------------------------------
(* Claims on the backup files of the pending changes *)

\* C35: while a pending change refers to a backup file that exists, the
\* backup holds the content the target had before the fix of that change was
\* written, whatever other fix tasks do to the same file.
C35_BackupHoldsPreFixContent ==
    \A i \in 1..Len(pending_changes) :
       IsSome(disk[pending_changes[i].backup_path]) =>
          disk[pending_changes[i].backup_path] = pending_changes[i].pre

----------------------------------------------------------------------------
(* Claims on the backup path of a target *)

\* C36: the backup of one fix never overwrites the backup of another file:
\* when a fix task copies its target to the target's backup path, the backup
\* every pending change of another file refers to is left as it is.
C36_BackupPathsApart ==
    [][\A t \in TaskIds :
          FixBackup(t) =>
             \A i \in 1..Len(pending_changes) :
                pending_changes[i].file_path # tasks[t].file =>
                   disk'[pending_changes[i].backup_path]
                      = disk[pending_changes[i].backup_path]]_vars

----------------------------------------------------------------------------
(* main.rs run_loop: one fix from its dispatch to its terminal message *)

FixTaskStep(t) ==
    \/ FixGenerate(t)
    \/ FixBackup(t)
    \/ FixWrite(t)
    \/ FixFinish(t)
    \/ FixRestore(t)
    \/ FixRemoveBackup(t)

InitFix ==
    /\ Unlimited
    /\ InitFresh
    /\ IdleRefactor
    /\ IdleBackground

NextFix ==
    \/ \E t \in TaskIds : PreviewTaskDone(t)
    \/ \E t \in TaskIds : FixTaskStep(t)
    \/ VerifyTaskDone
    \/ HandlePreviewReady
    \/ HandlePreviewError
    \/ HandleDirectFixApplied
    \/ HandleDirectFixError
    \/ HandleVerificationComplete
    \/ HandleError
    \/ KeyEnterSuggestions
    \/ KeyEnterVerify
    \/ KeyEsc

\* A spawned task runs to its end (tokio::spawn), and run_loop takes the
\* message at the head of the channel in its next iteration (try_recv); the
\* user is not bound to press a key.
FairFix ==
    /\ WF_vars(\E t \in TaskIds : PreviewTaskDone(t))
    /\ WF_vars(\E t \in TaskIds : FixTaskStep(t))
    /\ WF_vars(VerifyTaskDone)
    /\ WF_vars(HandlePreviewReady)
    /\ WF_vars(HandlePreviewError)
    /\ WF_vars(HandleDirectFixApplied)
    /\ WF_vars(HandleDirectFixError)
    /\ WF_vars(HandleVerificationComplete)
    /\ WF_vars(HandleError)

SpecFix == InitFix /\ [][NextFix]_vars /\ FairFix

\* C37: a step of a fix task sends a message exactly when it is the last step
\* of the task, the message is the DirectFixApplied or DirectFixError of the
\* task's suggestion, and it is DirectFixApplied only after the task wrote
\* the target; and the loading state GeneratingFix that the dispatch sets is
\* always cleared at some later time.
C37_FixEndsWithOneMessage ==
    /\ [][\A t \in TaskIds :
             tasks[t].kind = "fix" /\ tasks'[t] # tasks[t] =>
                IF tasks'[t] = Finished
                THEN /\ Len(chan') = Len(chan) + 1
                     /\ SubSeq(chan', 1, Len(chan)) = chan
                     /\ chan'[Len(chan')].type \in {"DirectFixApplied", "DirectFixError"}
                     /\ chan'[Len(chan')].sid = tasks[t].sid
                     /\ chan'[Len(chan')].type = "DirectFixApplied" =>
                           /\ tasks[t].pc = "finish"
                           /\ \E k \in 1..Len(tasks[t].log) : tasks[t].log[k] = "write"
                ELSE chan' = chan]_vars
    /\ (loading = "GeneratingFix") ~> (loading # "GeneratingFix")

\* Two fixes were dispatched and both ended; the DirectFixApplied of one was
\* handled, and nothing is loading any more.
C37_Witness ==
    /\ pending_changes # <<>>
    /\ loading = "None"
    /\ chan = <<>>
    /\ Len(tasks) = MaxTasks
    /\ \A t \in TaskIds : tasks[t] = Finished

----------------------------------------------------------------------------
(* Claims on a failed call in the Review step *)

\* No verification and no re-fix is in flight and no message is waiting
ReviewQuiet == verifyTasks = 0 /\ reviewFixTasks = 0 /\ chan = <<>>

\* C38: once a verification pass or a re-fix has failed and its Error message
\* was handled, the Review step is idle again: whenever the workflow is in
\* Review with no verification or re-fix in flight and no message waiting,
\* it is neither reviewing nor fixing.
C38_FailureLeavesReviewIdle ==
    workflow_step = "Review" /\ ReviewQuiet => ~reviewing /\ ~review_state.fixing


----------------------------------------------------------------------------
(* main.rs run_loop: the budget check before the tasks that call the model *)

\* The session starts with a configured budget, part of it left or all of it
\* spent (the suggestions on screen have been paid for).
InitBudget ==
    /\ ai_budget \in {"left", "spent"}
    /\ InitFresh
    /\ IdleRefactor
    /\ IdleBackground

NextBudget ==
    \/ \E t \in TaskIds : PreviewTaskDone(t)
    \/ \E t \in TaskIds : FixTaskStep(t)
    \/ VerifyTaskDone
    \/ ReviewFixTaskDone
    \/ HandlePreviewReady
    \/ HandlePreviewError
    \/ HandleDirectFixApplied
    \/ HandleDirectFixError
    \/ HandleVerificationComplete
    \/ HandleVerificationFixComplete
    \/ HandleError
    \/ KeyEnterSuggestions
    \/ KeyEnterVerify
    \/ KeyToggleFinding
    \/ KeyFixFindings
    \/ KeyEsc
    \/ OverlayApply
    \/ OverlayClose

SpecBudget == InitBudget /\ [][NextBudget]_vars

\* A step of the user: no message is taken from the channel and no task moves.
KeyStep ==
    /\ chan' = chan
    /\ \A t \in 1..Len(tasks) : tasks'[t] = tasks[t]
    /\ verifyTasks' >= verifyTasks
    /\ reviewFixTasks' >= reviewFixTasks

\* C39: while allow_ai(session_cost) fails, no key press dispatches a task
\* that calls the language model: no preview task, no fix task, no re-fix of
\* findings and no suggestion generation is added by a step of the user.
C39_NoDispatchOverBudget ==
    [][~AllowAi /\ KeyStep =>
          /\ Len(tasks') = Len(tasks)
          /\ reviewFixTasks' = reviewFixTasks
          /\ genTasks' = genTasks
          /\ verifyTasks' = verifyTasks]_vars


----------------------------------------------------------------------------
(* app/input/overlay.rs handle_overlay_input: the startup-check overlay *)

MaxScroll == 2

\* KeyEvent.code: the keys the handler tells apart, and any other key
Keys == {"Esc", "q", "Down", "Up", "Enter", "y", "n", "c", "s", "d", "other"}

\* Variant of Confirming: the guards of the confirmation arms always pass.
ConfirmingAlways == TRUE

\* let confirming = *confirming_discard (overlay.rs 65)
Confirming == overlay.confirming_discard

\* App::close_overlay (ui/mod.rs 262-264)
CloseOverlay == overlay' = [kind |-> "None"]

\* App::startup_check_confirm_discard(confirming)
StartupCheckConfirmDiscard(confirming) ==
    overlay' = [overlay EXCEPT !.confirming_discard = confirming]

\* App::overlay_scroll_down, App::overlay_scroll_up
OverlayScrollDown ==
    overlay' = [overlay EXCEPT !.scroll = IF @ < MaxScroll THEN @ + 1 ELSE @]

OverlayScrollUp ==
    overlay' = [overlay EXCEPT !.scroll = IF @ > 0 THEN @ - 1 ELSE @]

\* background::spawn_background(tx, name, future)
SpawnBackground(name) == tasks' = Append(tasks, [kind |-> name, pc |-> "run"])

\* The match of the startup-check overlay (overlay.rs 66-145); the first arm
\* whose pattern and guard hold is taken.
StartupCheckInput(key) ==
    CASE key \in {"Esc", "q"} ->
            CloseOverlay /\ UNCHANGED <<loading, tasks>>
      [] key = "Down" ->
            OverlayScrollDown /\ UNCHANGED <<loading, tasks>>
      [] key = "Up" ->
            OverlayScrollUp /\ UNCHANGED <<loading, tasks>>
      [] key \in {"y", "Enter"} /\ Confirming ->
            /\ loading' = "Discarding"
            /\ CloseOverlay
            /\ SpawnBackground("discard_changes")
      [] key \in {"n", "c"} /\ Confirming ->
            StartupCheckConfirmDiscard(FALSE) /\ UNCHANGED <<loading, tasks>>
      [] key = "s" /\ ~Confirming ->
            /\ loading' = "Stashing"
            /\ CloseOverlay
            /\ SpawnBackground("stash_changes")
      [] key = "d" /\ ~Confirming ->
            StartupCheckConfirmDiscard(TRUE) /\ UNCHANGED <<loading, tasks>>
      [] key = "c" /\ ~Confirming ->
            CloseOverlay /\ UNCHANGED <<loading, tasks>>
      [] OTHER ->
            UNCHANGED <<overlay, loading, tasks>>

\* The match of the other overlays (overlay.rs 151-156)
OtherOverlayInput(key) ==
    /\ CASE key \in {"Esc", "q"} -> CloseOverlay
         [] key = "Down" -> OverlayScrollDown
         [] key = "Up" -> OverlayScrollUp
         [] OTHER -> UNCHANGED overlay
    /\ UNCHANGED <<loading, tasks>>

StartupCheckFrame ==
    UNCHANGED <<fs, fs0, plan, rpc, idx, backups, executed, opError, result,
                restoreFailed, ret, ai_budget, suggestions, pending_changes,
                workflow_step, verify_state, reviewing, disk, staged, genTasks,
                verifyTasks, nextId, resets, ever, svars, wvars>>

\* handle_overlay_input(app, key, ctx) (overlay.rs 9-161). The Reset overlay
\* is not opened in this machine.
HandleOverlayInput(key) ==
    /\ call' = [fn |-> "handle_overlay_input", key |-> key]
    /\ IF overlay.kind = "None"
       THEN UNCHANGED <<overlay, loading, tasks>>
       ELSE IF overlay.kind = "StartupCheck"
            THEN StartupCheckInput(key)
            ELSE OtherOverlayInput(key)
    /\ UNCHANGED <<chan, changed>>
    /\ StartupCheckFrame

\* The future handed to spawn_background (overlay.rs 83-92, 125-134):
\* git_ops::discard_all_changes or git_ops::stash_changes, then one message.
\* A call that succeeds leaves no change in the working tree.
BackgroundTaskDone(t) ==
    /\ tasks[t].kind \in {"discard_changes", "stash_changes"}
    /\ tasks' = [tasks EXCEPT ![t] = Finished]
    /\ \/ /\ changed' = {}
          /\ Send(Msg(IF tasks[t].kind = "discard_changes"
                      THEN "DiscardComplete" ELSE "StashComplete"))
       \/ /\ changed' = changed
          /\ Send(Msg("Error"))
    /\ UNCHANGED <<overlay, loading, call>>
    /\ StartupCheckFrame

\* The overlay is open when the session starts: the startup check in its
\* initial menu over a working tree with changes, or another overlay.
InitStartupCheck ==
    /\ Unlimited
    /\ suggestions = <<>>
    /\ pending_changes = <<>>
    /\ workflow_step = "Suggestions"
    /\ verify_state = NoVerify
    /\ reviewing = FALSE
    /\ loading = "None"
    /\ disk = <<>>
    /\ staged = {}
    /\ tasks = <<>>
    /\ genTasks = 0
    /\ verifyTasks = 0
    /\ chan = <<>>
    /\ nextId = 1
    /\ resets = 0
    /\ ever = {}
    /\ overlay \in {[kind |-> "StartupCheck", confirming_discard |-> FALSE, scroll |-> 0],
                    [kind |-> "Help", scroll |-> 0]}
    /\ changed \in (SUBSET Files) \ {{}}
    /\ IdleRefactor
    /\ IdleBackground
    /\ IdleWorkflow

NextStartupCheck ==
    \/ \E key \in Keys : HandleOverlayInput(key)
    \/ \E t \in TaskIds : BackgroundTaskDone(t)

SpecStartupCheck == InitStartupCheck /\ [][NextStartupCheck]_vars

InitialMenu == overlay.kind = "StartupCheck" /\ ~overlay.confirming_discard

ConfirmMenu == overlay.kind = "StartupCheck" /\ overlay.confirming_discard

DiscardDispatched ==
    \E t \in 1..Len(tasks') : t > Len(tasks) /\ tasks'[t].kind = "discard_changes"

\* C40: in the startup-check overlay a discard_changes task is dispatched
\* only by 'y' or Enter pressed while confirming_discard is true, and
\* confirming_discard becomes true only by 'd' pressed in the initial menu;
\* no key pressed in the initial menu dispatches the discard or changes the
\* working tree; 'n' or 'c' pressed in the confirmation leads back to the
\* initial menu with nothing dispatched and the working tree as it was.
C40_DiscardOnlyAfterConfirmation ==
    [][/\ DiscardDispatched => ConfirmMenu /\ call'.key \in {"y", "Enter"}
       /\ ~ConfirmMenu /\ ConfirmMenu' => InitialMenu /\ call'.key = "d"
       /\ InitialMenu => ~DiscardDispatched /\ changed' = changed
       /\ ConfirmMenu /\ call'.key \in {"n", "c"} =>
             /\ overlay' = [overlay EXCEPT !.confirming_discard = FALSE]
             /\ tasks' = tasks
             /\ loading' = loading
             /\ changed' = changed]_vars

C40_Witness ==
    /\ call.fn = "handle_overlay_input"
    /\ call.key \in {"y", "Enter"}
    /\ overlay.kind = "None"
    /\ loading = "Discarding"
    /\ Len(tasks) = 1
    /\ tasks[1] = Finished
    /\ changed = {}

====
